---- MODULE Spec2Model ----
(***************************************************************************)
(* Booth-Planner-Master: the 2D layout geometry and the interaction state  *)
(* machine of src/App.tsx with the pure helpers of src/utils/geometry.ts.  *)
(*                                                                         *)
(* Numbers.  The program computes in IEEE 754 doubles, and so does the     *)
(* model: a number is the record [s, m, e] of the double (-1)^s * m * 2^e  *)
(* with m an odd natural below 2^53, kept as a sequence of 15-bit limbs    *)
(* (TLC's integers are 32 bits wide).  Sums, products, quotients and       *)
(* square roots are rounded to the nearest double, ties to even, as the    *)
(* hardware rounds them; Math.cos, Math.sin and Math.exp are tables of the *)
(* doubles they return for the arguments the model uses.  Rotations, ids,  *)
(* part counts and indices are integers.  Pointer coordinates are relative *)
(* to the canvas container (e.clientX - rect.left).                        *)
(***************************************************************************)
EXTENDS Integers, Sequences, FiniteSets, Bags, TLC

\* ------------------------------------------------------------------------
\* Integers
\* ------------------------------------------------------------------------
Abs(a) == IF a < 0 THEN -a ELSE a
Max(a, b) == IF a >= b THEN a ELSE b
Min(a, b) == IF a <= b THEN a ELSE b

\* ------------------------------------------------------------------------
\* Naturals of any size: little-endian sequences of limbs in base Base,
\* without leading zero limbs; <<>> is 0
\* ------------------------------------------------------------------------
Base == 32768
LimbBits == 15

RECURSIVE Pow2(_)
Pow2(k) == IF k = 0 THEN 1 ELSE 2 * Pow2(k - 1)

RECURSIVE BigOf(_)
BigOf(n) == IF n = 0 THEN <<>> ELSE <<n % Base>> \o BigOf(n \div Base)

RECURSIVE BTrim(_)
BTrim(a) == IF Len(a) = 0 THEN a
            ELSE IF a[Len(a)] = 0 THEN BTrim(SubSeq(a, 1, Len(a) - 1)) ELSE a

\* limb k of a, 0 beyond its ends
Limb(a, k) == IF 0 < k /\ k <= Len(a) THEN a[k] ELSE 0

RECURSIVE BCmpFrom(_, _, _)
BCmpFrom(a, b, k) ==
    IF k = 0 THEN 0
    ELSE IF a[k] < b[k] THEN -1
    ELSE IF a[k] > b[k] THEN 1
    ELSE BCmpFrom(a, b, k - 1)

\* -1, 0, 1
BCmp(a, b) == IF Len(a) < Len(b) THEN -1
              ELSE IF Len(a) > Len(b) THEN 1
              ELSE BCmpFrom(a, b, Len(a))

\* the limbs of a sum or product from limb k on, t being the value at limb k
RECURSIVE BAddFrom(_, _, _, _)
BAddFrom(a, b, k, t) ==
    IF k > Len(a) /\ k > Len(b)
    THEN (IF t = 0 THEN <<>> ELSE <<t>>)
    ELSE <<t % Base>> \o BAddFrom(a, b, k + 1, Limb(a, k + 1) + Limb(b, k + 1) + t \div Base)

BAdd(a, b) == BAddFrom(a, b, 1, Limb(a, 1) + Limb(b, 1))

RECURSIVE BSubFrom(_, _, _, _)
BSubFrom(a, b, k, t) ==
    IF k > Len(a) THEN <<>>
    ELSE IF t < 0 THEN <<t + Base>> \o BSubFrom(a, b, k + 1, Limb(a, k + 1) - Limb(b, k + 1) - 1)
    ELSE <<t>> \o BSubFrom(a, b, k + 1, Limb(a, k + 1) - Limb(b, k + 1))

\* a - b for a >= b
BSub(a, b) == BTrim(BSubFrom(a, b, 1, Limb(a, 1) - Limb(b, 1)))

RECURSIVE BMulSmallFrom(_, _, _, _)
BMulSmallFrom(a, d, k, t) ==
    IF k > Len(a) THEN (IF t = 0 THEN <<>> ELSE <<t>>)
    ELSE <<t % Base>> \o BMulSmallFrom(a, d, k + 1, Limb(a, k + 1) * d + t \div Base)

\* a * d for 0 <= d < Base
BMulSmall(a, d) == IF d = 0 THEN <<>> ELSE BMulSmallFrom(a, d, 1, Limb(a, 1) * d)

RECURSIVE BMulFrom(_, _, _)
BMulFrom(a, b, k) ==
    IF k > Len(b) THEN <<>>
    ELSE BAdd(BMulSmall(a, b[k]), <<0>> \o BMulFrom(a, b, k + 1))

BMul(a, b) == BTrim(BMulFrom(a, b, 1))

RECURSIVE Zeros(_)
Zeros(n) == IF n = 0 THEN <<>> ELSE <<0>> \o Zeros(n - 1)

\* a * 2^n
BShl(a, n) == IF Len(a) = 0 THEN a
              ELSE Zeros(n \div LimbBits) \o BMulSmall(a, Pow2(n % LimbBits))

\* the limbs k, ..., 1 of floor(a / d), t being the value brought down to limb k
RECURSIVE BDivSmallFrom(_, _, _, _)
BDivSmallFrom(a, d, k, t) ==
    IF k = 0 THEN <<>>
    ELSE BDivSmallFrom(a, d, k - 1, (t % d) * Base + Limb(a, k - 1)) \o <<t \div d>>

\* floor(a / d) for 0 < d <= Base
BDivSmall(a, d) == BTrim(BDivSmallFrom(a, d, Len(a), Limb(a, Len(a))))

RECURSIVE BModSmallFrom(_, _, _, _)
BModSmallFrom(a, d, k, rem) ==
    IF k = 0 THEN rem ELSE BModSmallFrom(a, d, k - 1, (rem * Base + a[k]) % d)

BModSmall(a, d) == BModSmallFrom(a, d, Len(a), 0)

\* floor(a / 2^n)
BShr(a, n) ==
    IF n \div LimbBits >= Len(a) THEN <<>>
    ELSE BDivSmall(SubSeq(a, n \div LimbBits + 1, Len(a)), Pow2(n % LimbBits))

\* a mod 2^n is not 0
BLowBits(a, n) ==
    \/ \E k \in 1..Min(n \div LimbBits, Len(a)) : a[k] # 0
    \/ Limb(a, n \div LimbBits + 1) % Pow2(n % LimbBits) # 0

\* bit n of a (bit 0 is the lowest)
BBit(a, n) == (Limb(a, n \div LimbBits + 1) \div Pow2(n % LimbBits)) % 2

RECURSIVE BitLen(_)
BitLen(n) == IF n = 0 THEN 0 ELSE 1 + BitLen(n \div 2)

BBitLen(a) == IF Len(a) = 0 THEN 0 ELSE LimbBits * (Len(a) - 1) + BitLen(a[Len(a)])

RECURSIVE TrailingZeros(_)
TrailingZeros(n) == IF n % 2 = 1 THEN 0 ELSE 1 + TrailingZeros(n \div 2)

RECURSIVE BTrailingZerosFrom(_, _)
BTrailingZerosFrom(a, k) ==
    IF a[k] = 0 THEN LimbBits + BTrailingZerosFrom(a, k + 1) ELSE TrailingZeros(a[k])

\* for a # 0
BTrailingZeros(a) == BTrailingZerosFrom(a, 1)

\* one digit of the long division: the largest q with d * q <= rem, counted
\* down from an estimate that is not below it
RECURSIVE BDivDigit(_, _, _)
BDivDigit(rem, d, qhat) ==
    IF BCmp(BMulSmall(d, qhat), rem) <= 0 THEN qhat ELSE BDivDigit(rem, d, qhat - 1)

\* the estimate of a digit from the top limbs; the top limb of d is at least
\* Base / 2, so that it is at most 2 too large
BDivEstimate(rem, d) ==
    Min(Base - 1, (Limb(rem, Len(d) + 1) * Base + Limb(rem, Len(d))) \div d[Len(d)])

\* long division, limb by limb: <<quotient, remainder>> once the limbs k,
\* k-1, ..., 1 of num have been brought down
RECURSIVE BDivStep(_, _, _, _, _)
RECURSIVE BDivBring(_, _, _, _, _)
RECURSIVE BDivTake(_, _, _, _, _, _)
BDivStep(q, rem, num, d, k) ==
    IF k = 0 THEN <<BTrim(q), rem>>
    ELSE BDivBring(q, BTrim(<<num[k]>> \o rem), num, d, k)

BDivBring(q, rem, num, d, k) ==
    BDivTake(q, rem, num, d, k, BDivDigit(rem, d, BDivEstimate(rem, d)))

BDivTake(q, rem, num, d, k, digit) ==
    BDivStep(<<digit>> \o q, BSub(rem, BMulSmall(d, digit)), num, d, k - 1)

\* <<floor(num / d), num mod d # 0>> of a <<quotient, remainder>>
QuotSticky(qr) == <<qr[1], Len(qr[2]) # 0>>

\* long division by a d whose top limb is at least Base / 2
BDivNormal(num, d) == BDivStep(<<>>, <<>>, num, d, Len(num))

\* <<floor(num / d), num mod d # 0>> for d # 0
BDivMod(num, d) ==
    IF Len(d) = 1
    THEN <<BDivSmall(num, d[1]), BModSmall(num, d[1]) # 0>>
    ELSE QuotSticky(BDivNormal(BShl(num, LimbBits - BitLen(d[Len(d)])),
                               BShl(d, LimbBits - BitLen(d[Len(d)]))))

\* ------------------------------------------------------------------------
\* IEEE 754 binary64 values: (-1)^s * m * 2^e with m odd (or m = 0, e = 0),
\* m below 2^53; round to nearest, ties to even.  Infinities, NaN, the sign
\* of zero and subnormals are outside the values the program computes with.
\* ------------------------------------------------------------------------
Precision == 53

Zero == [s |-> 0, m |-> <<>>, e |-> 0]

IsZero(a) == Len(a.m) = 0

\* m * 2^e with the tz trailing zero bits of m moved into the exponent
CanonBy(s, m, e, tz) == [s |-> s, m |-> BShr(m, tz), e |-> e + tz]

\* the value (-1)^s * m * 2^e for any m, which needs at most Precision bits
Canon(s, m, e) ==
    IF Len(m) = 0 THEN Zero ELSE CanonBy(s, m, e, BTrailingZeros(m))

\* q * 2^e, one unit of q more when rounded up
RoundUp(s, q, e, up) == Canon(s, IF up THEN BAdd(q, <<1>>) ELSE q, e)

\* m without its low shift bits, rounded to nearest, ties to even
RoundTo(s, m, e, sticky, shift, q) ==
    RoundUp(s, q, e + shift,
            /\ BBit(m, shift - 1) = 1
            /\ (sticky \/ BLowBits(m, shift - 1) \/ BBit(q, 0) = 1))

RoundBits(s, m, e, sticky, len) ==
    IF len <= Precision THEN Canon(s, m, e)
    ELSE RoundTo(s, m, e, sticky, len - Precision, BShr(m, len - Precision))

\* the double nearest to (-1)^s * (m + f) * 2^e, where 0 <= f < 1 and
\* sticky tells f # 0 (then m has more than Precision + 1 bits)
RoundD(s, m, e, sticky) == RoundBits(s, m, e, sticky, BBitLen(m))

\* the double of a whole number (of world units, of pixels)
W(n) == IF n < 0 THEN Canon(1, BigOf(-n), 0) ELSE Canon(0, BigOf(n), 0)

FNeg(a) == IF IsZero(a) THEN a ELSE [a EXCEPT !.s = 1 - a.s]

FAbs(a) == [a EXCEPT !.s = 0]

\* the exponent of the leading bit, plus one
Top(a) == a.e + BBitLen(a.m)

\* compares m * 2^e of two values at their common exponent e
CmpAt(a, b, e) == BCmp(BShl(a.m, a.e - e), BShl(b.m, b.e - e))

CmpTop(a, b, ta, tb) ==
    IF ta < tb THEN -1 ELSE IF ta > tb THEN 1 ELSE CmpAt(a, b, Min(a.e, b.e))

\* compares the magnitudes: -1, 0, 1
CmpMag(a, b) ==
    IF IsZero(a) THEN (IF IsZero(b) THEN 0 ELSE -1)
    ELSE IF IsZero(b) THEN 1
    ELSE CmpTop(a, b, Top(a), Top(b))

\* -1, 0, 1
FCmp(a, b) ==
    IF a.s # b.s
    THEN (IF IsZero(a) /\ IsZero(b) THEN 0 ELSE IF a.s = 1 THEN -1 ELSE 1)
    ELSE CmpMag(IF a.s = 0 THEN a ELSE b, IF a.s = 0 THEN b ELSE a)

FLt(a, b) == FCmp(a, b) < 0
FLe(a, b) == FCmp(a, b) <= 0
FGt(a, b) == FCmp(a, b) > 0
FGe(a, b) == FCmp(a, b) >= 0

FMax(a, b) == IF FGe(a, b) THEN a ELSE b
FMin(a, b) == IF FLe(a, b) THEN a ELSE b

\* Math.sign as an integer
FSign(a) == IF IsZero(a) THEN 0 ELSE IF a.s = 1 THEN -1 ELSE 1

\* (-1)^sa * ma + (-1)^sb * mb, times 2^e
AddMantissas(sa, ma, sb, mb, e, cmp) ==
    RoundD(IF cmp >= 0 THEN sa ELSE sb,
           IF sa = sb THEN BAdd(ma, mb)
           ELSE IF cmp >= 0 THEN BSub(ma, mb) ELSE BSub(mb, ma),
           e, FALSE)

AddShifted(sa, ma, sb, mb, e) == AddMantissas(sa, ma, sb, mb, e, BCmp(ma, mb))

AddAt(a, b, e) == AddShifted(a.s, BShl(a.m, a.e - e), b.s, BShl(b.m, b.e - e), e)

\* the sum of two values neither of which is lost in the other
AddAligned(a, b) == AddAt(a, b, Min(a.e, b.e))

\* the sum of two values from the places of their leading bits: the smaller
\* one is lost when it lies below the rounding of the larger
AddTop(a, b, ta, tb) ==
    IF ta - tb > Precision + 3 THEN a
    ELSE IF tb - ta > Precision + 3 THEN b
    ELSE AddAligned(a, b)

\* a + b
FAdd(a, b) ==
    IF IsZero(a) THEN b
    ELSE IF IsZero(b) THEN a
    ELSE AddTop(a, b, Top(a), Top(b))

\* a - b
FSub(a, b) == FAdd(a, FNeg(b))

\* a * b
FMul(a, b) ==
    IF IsZero(a) \/ IsZero(b) THEN Zero
    ELSE RoundD((a.s + b.s) % 2, BMul(a.m, b.m), a.e + b.e, FALSE)

DivRound(s, qr, e) == RoundD(s, qr[1], e, qr[2])

DivBy(s, ma, mb, e, k) == DivRound(s, BDivMod(BShl(ma, k), mb), e - k)

\* the quotient of the odd naturals ma / mb, mb > 1, times 2^e
DivOdd(s, ma, mb, e) ==
    DivBy(s, ma, mb, e, Max(0, Precision + 3 + BBitLen(mb) - BBitLen(ma)))

\* a / b for b # 0
FDiv(a, b) ==
    IF IsZero(a) THEN Zero
    ELSE IF b.m = <<1>> THEN [s |-> (a.s + b.s) % 2, m |-> a.m, e |-> a.e - b.e]
    ELSE DivOdd((a.s + b.s) % 2, a.m, b.m, a.e - b.e)

\* the whole number q, one more in magnitude when rounded away from 0
RoundWhole(s, q, half, rest) ==
    Canon(s, IF half /\ (s = 0 \/ rest) THEN BAdd(q, <<1>>) ELSE q, 0)

\* Math.round: the nearest whole number, halves towards +Infinity
FRound(a) ==
    IF a.e >= 0 THEN a
    ELSE RoundWhole(a.s, BShr(a.m, -a.e), BBit(a.m, -a.e - 1) = 1,
                    BLowBits(a.m, -a.e - 1))

\* Newton's iteration for the floor of the square root of n, from an x that
\* is not below it
RECURSIVE BSqrtStep(_, _)
RECURSIVE BSqrtNext(_, _, _)
BSqrtStep(n, x) == BSqrtNext(n, x, BDivSmall(BAdd(x, BDivMod(n, x)[1]), 2))

BSqrtNext(n, x, y) == IF BCmp(y, x) >= 0 THEN x ELSE BSqrtStep(n, y)

\* the double nearest to the square root of n * 2^e, r its floor
SqrtRound(n, r, e) == RoundD(0, r, e, BCmp(BMul(r, r), n) # 0)

SqrtOf(n, e) == SqrtRound(n, BSqrtStep(n, BShl(<<1>>, (BBitLen(n) + 1) \div 2)), e)

\* m * 2^e as n * 2^(e - k) with e - k even
SqrtShifted(m, e, k) ==
    IF (e - k) % 2 = 0 THEN SqrtOf(BShl(m, k), (e - k) \div 2)
    ELSE SqrtOf(BShl(m, k + 1), (e - k - 1) \div 2)

\* Math.sqrt for a >= 0
FSqrt(a) ==
    IF IsZero(a) THEN Zero
    ELSE SqrtShifted(a.m, a.e, Max(0, 2 * Precision + 4 - BBitLen(a.m)))

\* a truthy number: neither 0 nor undefined (NaN is outside the model)
Truthy(a) == ~IsZero(a)

\* Math.round
MathRound(a) == FRound(a)

\* ------------------------------------------------------------------------
\* Trigonometry: Math.cos / Math.sin of (deg * Math.PI) / 180
\* ------------------------------------------------------------------------
Bin(s, m, e) == [s |-> s, m |-> m, e |-> e]

\* Math.cos((deg * Math.PI) / 180) for the rotations the model turns zones by
CosTable(deg) ==
    CASE deg = 0 -> Bin(0, <<1>>, 0)   \* 1.0
      [] deg = 30 -> Bin(0, <<19627, 20656, 23019, 221>>, -53)   \* 0.8660254037844387
      [] deg = 45 -> Bin(0, <<15309, 19710, 633, 181>>, -53)   \* 0.7071067811865476
      [] deg = 60 -> Bin(0, <<1, 0, 0, 128>>, -53)   \* 0.5000000000000001
      [] deg = 90 -> Bin(0, <<23559, 26152, 6296, 141>>, -106)   \* 6.123233995736766e-17
      [] deg = 137 -> Bin(1, <<13505, 24776, 20095, 93>>, -52)   \* -0.7313537016191705
      [] deg = 180 -> Bin(1, <<1>>, 0)   \* -1.0
      [] deg = 270 -> Bin(1, <<17669, 19614, 29298, 105>>, -104)   \* -1.8369701987210297e-16
      [] deg = 315 -> Bin(0, <<15307, 19710, 633, 181>>, -53)   \* 0.7071067811865474
      [] deg = 360 -> Bin(0, <<1>>, 0)   \* 1.0
      [] deg = 450 -> Bin(0, <<29449, 32690, 16062, 176>>, -104)   \* 3.061616997868383e-16

\* Math.sin((deg * Math.PI) / 180)
SinTable(deg) ==
    CASE deg = 0 -> Bin(0, <<>>, 0)   \* 0.0
      [] deg = 30 -> Bin(0, <<32767, 32767, 32767, 255>>, -54)   \* 0.49999999999999994
      [] deg = 45 -> Bin(0, <<20211, 13119, 8350, 45>>, -51)   \* 0.7071067811865475
      [] deg = 60 -> Bin(0, <<9813, 26712, 27893, 110>>, -52)   \* 0.8660254037844386
      [] deg = 90 -> Bin(0, <<1>>, 0)   \* 1.0
      [] deg = 137 -> Bin(0, <<9995, 7366, 21230, 43>>, -51)   \* 0.6819983600624986
      [] deg = 180 -> Bin(0, <<23559, 26152, 6296, 141>>, -105)   \* 1.2246467991473532e-16
      [] deg = 270 -> Bin(1, <<1>>, 0)   \* -1.0
      [] deg = 315 -> Bin(1, <<7655, 26239, 16700, 90>>, -52)   \* -0.7071067811865477
      [] deg = 360 -> Bin(1, <<23559, 26152, 6296, 141>>, -104)   \* -2.4492935982947064e-16
      [] deg = 450 -> Bin(0, <<1>>, 0)   \* 1.0

\* (-deg * Math.PI) / 180 is the negative of (deg * Math.PI) / 180, the
\* cosine is even and the sine is odd
Cos(deg) == CosTable(Abs(deg))

Sin(deg) == IF deg < 0 THEN FNeg(SinTable(-deg)) ELSE SinTable(deg)

\* program constants (src/constants.ts)
GRID_SIZE == 5
DEFAULT_BOOTH_W == 200
DEFAULT_BOOTH_H == 200
DEFAULT_PILLAR_W == 40
DEFAULT_PILLAR_H == 40

\* ------------------------------------------------------------------------
\* Data model (types.ts)
\* ------------------------------------------------------------------------
BOOTH == "BOOTH"
PILLAR == "PILLAR"

\* an absent optional number (manualArea: undefined): no double has this
\* form, and like undefined it is not truthy
Undefined == [s |-> 0, m |-> <<>>, e |-> 1]

\* A label is the sequence of its numeric suffixes after the prefix 'B':
\* 'B-3' is <<3>>, 'B-3-1' is <<3, 1>>, and an absent label is <<>>.
NoLabel == <<>>

\* points: <<>> when the zone is a rectangle
NoPoints == <<>>

PlannerItem(id, type, x, y, w, h, rotation, locked) ==
    [id |-> id, type |-> type, x |-> x, y |-> y, w |-> w, h |-> h,
     rotation |-> rotation, locked |-> locked, points |-> NoPoints,
     label |-> NoLabel, useManualArea |-> FALSE, manualArea |-> Undefined,
     color |-> "none", fontSize |-> 0, fontColor |-> "none", notes |-> ""]

\* ------------------------------------------------------------------------
\* geometry.ts
\* ------------------------------------------------------------------------
\* the box of size newW x newH about the centre of the item (lines 15-16, 29-32)
boundsOf(item, newW, newH) ==
    [x |-> FSub(FAdd(item.x, FDiv(item.w, W(2))), FDiv(newW, W(2))),
     y |-> FSub(FAdd(item.y, FDiv(item.h, W(2))), FDiv(newH, W(2))),
     w |-> newW, h |-> newH]

\* newW = w * absCos + h * absSin, newH = w * absSin + h * absCos (lines 25-26)
boundsAbout(item, absCos, absSin) ==
    boundsOf(item, FAdd(FMul(item.w, absCos), FMul(item.h, absSin)),
                   FAdd(FMul(item.w, absSin), FMul(item.h, absCos)))

getBoundingBox(item) ==
    IF item.rotation = 0
    THEN [x |-> item.x, y |-> item.y, w |-> item.w, h |-> item.h]
    ELSE boundsAbout(item, FAbs(Cos(item.rotation)), FAbs(Sin(item.rotation)))

\* the overlap of two intervals before it is clamped at 0
overlapUnclamped(lo1, size1, lo2, size2) ==
    FSub(FMin(FAdd(lo1, size1), FAdd(lo2, size2)), FMax(lo1, lo2))

overlapAreaUnclamped(box1, box2) ==
    FMul(overlapUnclamped(box1.x, box1.w, box2.x, box2.w),
         overlapUnclamped(box1.y, box1.h, box2.y, box2.h))

\* mutant: the overlaps are not clamped at 0
getIntersectionAreaUnclamped(r1, r2) ==
    overlapAreaUnclamped(getBoundingBox(r1), getBoundingBox(r2))

\* the extent from the nearer left edge to the farther right edge
overlapFarEdge(lo1, size1, lo2, size2) ==
    FMax(Zero, FSub(FMax(FAdd(lo1, size1), FAdd(lo2, size2)), FMax(lo1, lo2)))

overlapAreaFarEdge(box1, box2) ==
    FMul(overlapFarEdge(box1.x, box1.w, box2.x, box2.w),
         overlapFarEdge(box1.y, box1.h, box2.y, box2.h))

\* mutant: the overlap runs to the farther right and bottom edges
getIntersectionAreaFarEdge(r1, r2) ==
    overlapAreaFarEdge(getBoundingBox(r1), getBoundingBox(r2))

\* the smaller extent less the offset of the two boxes
overlapByOffset(lo1, size1, lo2, size2) ==
    FMax(Zero, FSub(FMin(size1, size2), FAbs(FSub(lo1, lo2))))

overlapAreaByOffset(box1, box2) ==
    FMul(overlapByOffset(box1.x, box1.w, box2.x, box2.w),
         overlapByOffset(box1.y, box1.h, box2.y, box2.h))

\* mutant: the overlap is the smaller extent less the offset of the boxes
getIntersectionAreaByOffset(r1, r2) ==
    overlapAreaByOffset(getBoundingBox(r1), getBoundingBox(r2))

\* Math.max(0, Math.min(hi1, hi2) - Math.max(lo1, lo2)), lines 42-43
overlap(lo1, size1, lo2, size2) == FMax(Zero, overlapUnclamped(lo1, size1, lo2, size2))

\* xOverlap * yOverlap (line 45)
overlapArea(box1, box2) ==
    FMul(overlap(box1.x, box1.w, box2.x, box2.w), overlap(box1.y, box1.h, box2.y, box2.h))

getIntersectionArea(r1, r2) == overlapArea(getBoundingBox(r1), getBoundingBox(r2))

\* lostArea += getIntersectionArea(booth, pillar), pillar by pillar from k
RECURSIVE SumIntersections(_, _, _, _)
SumIntersections(booth, pillars, k, lostArea) ==
    IF k > Len(pillars) THEN lostArea
    ELSE SumIntersections(booth, pillars, k + 1,
                          FAdd(lostArea, getIntersectionArea(booth, pillars[k])))

\* mutant: the overlaps with every other zone are subtracted, booths included
calculateBoothNetAreaAllZones(booth, allItems) ==
    LET boothArea == FMul(booth.w, booth.h)
        others == SelectSeq(allItems, LAMBDA i : i.id # booth.id)
        lostArea == SumIntersections(booth, others, 1, Zero)
    IN FMax(Zero, FSub(boothArea, lostArea))

calculateBoothNetArea(booth, allItems) ==
    LET boothArea == FMul(booth.w, booth.h)
        pillars == SelectSeq(allItems, LAMBDA i : i.type = PILLAR)
        lostArea == SumIntersections(booth, pillars, 1, Zero)
    IN FMax(Zero, FSub(boothArea, lostArea))

\* ------------------------------------------------------------------------
\* handleSplitItem: the children of a split (App.tsx 135-186)
\* ------------------------------------------------------------------------
HORIZONTAL == "horizontal"
VERTICAL == "vertical"

\* Math.abs((rotation || 0) % 180) === 90   (JS % keeps the dividend's sign)
isRotated(rotation) == Abs(rotation) % 180 = 90

\* mutant: the rotation is not looked at
splitWidthUnrotated(rotation, direction) == direction = HORIZONTAL

\* wantHorizontalVisual and splitWidth, lines 145-146
splitWidth(rotation, direction) ==
    IF isRotated(rotation) THEN direction # HORIZONTAL ELSE direction = HORIZONTAL

\* mutant: the width is divided whatever the axis of the split
childWAlwaysDivided(item, parts, direction) == FDiv(item.w, W(parts))

childW(item, parts, direction) ==
    IF splitWidth(item.rotation, direction) THEN FDiv(item.w, W(parts)) ELSE item.w

childH(item, parts, direction) ==
    IF splitWidth(item.rotation, direction) THEN item.h ELSE FDiv(item.h, W(parts))

\* mutant: the children keep the parent's label
childLabelKept(item, i) == item.label

\* `${item.label || 'B'}-${i + 1}`
childLabel(item, i) == Append(item.label, i + 1)

\* item.useManualArea ? (item.manualArea ? item.manualArea / parts : 0) : undefined
childManualArea(item, parts) ==
    IF item.useManualArea
    THEN (IF Truthy(item.manualArea) THEN FDiv(item.manualArea, W(parts)) ELSE Zero)
    ELSE Undefined

\* (i * childSize) + (childSize / 2) - (parentSize / 2), lines 156-161
splitOffset(i, childSize, parentSize) ==
    FSub(FAdd(FMul(W(i), childSize), FDiv(childSize, W(2))), FDiv(parentSize, W(2)))

\* the child of size cW x cH whose centre is the parent's plus the offset
\* turned by the parent's rotation (lines 136-170)
childAt(item, cW, cH, offsetX, offsetY, newId, label, manualArea) ==
    [item EXCEPT !.id = newId,
                 !.x = FSub(FAdd(FAdd(item.x, FDiv(item.w, W(2))),
                                 FSub(FMul(offsetX, Cos(item.rotation)),
                                      FMul(offsetY, Sin(item.rotation)))),
                            FDiv(cW, W(2))),
                 !.y = FSub(FAdd(FAdd(item.y, FDiv(item.h, W(2))),
                                 FAdd(FMul(offsetX, Sin(item.rotation)),
                                      FMul(offsetY, Cos(item.rotation)))),
                            FDiv(cH, W(2))),
                 !.w = cW,
                 !.h = cH,
                 !.label = label,
                 !.locked = FALSE,
                 !.manualArea = manualArea]

\* a child laid out along the world axes from the parent's top-left corner
childAlongAxes(item, sw, cW, cH, i, newId, label, manualArea) ==
    [item EXCEPT !.id = newId,
                 !.x = IF sw THEN FAdd(item.x, FMul(W(i), cW)) ELSE item.x,
                 !.y = IF sw THEN item.y ELSE FAdd(item.y, FMul(W(i), cH)),
                 !.w = cW,
                 !.h = cH,
                 !.label = label,
                 !.locked = FALSE,
                 !.manualArea = manualArea]

\* mutant: the children are laid out along the world axes from the parent's
\* top-left corner, whatever the rotation
splitChildUnrotated(item, parts, direction, i, newId) ==
    childAlongAxes(item, splitWidth(item.rotation, direction),
                   childW(item, parts, direction), childH(item, parts, direction),
                   i, newId, childLabel(item, i), childManualArea(item, parts))

\* the child at the offset along the split axis: offsetX along the width,
\* offsetY along the height, the other offset 0 (lines 151-162)
childOnAxis(item, sw, cW, cH, i, newId, label, manualArea) ==
    childAt(item, cW, cH,
            IF sw THEN splitOffset(i, cW, item.w) ELSE Zero,
            IF sw THEN Zero ELSE splitOffset(i, cH, item.h),
            newId, label, manualArea)

\* child i (0-indexed) of the split, with the fresh id newId
splitChild(item, parts, direction, i, newId) ==
    childOnAxis(item, splitWidth(item.rotation, direction),
                childW(item, parts, direction), childH(item, parts, direction),
                i, newId, childLabel(item, i), childManualArea(item, parts))

\* newItems: child i gets the id firstId + i (Math.random ids are fresh)
splitChildren(item, parts, direction, firstId) ==
    [k \in 1..parts |-> splitChild(item, parts, direction, k - 1, firstId + k - 1)]
\* ------------------------------------------------------------------------
\* Bounds of the model
\* ------------------------------------------------------------------------
\* handler runs explored from the initial state
MaxOps == 4
\* zones in the collection (adds, duplicates, splits and polygons stop there)
MaxItems == 8
\* points placed while drawing a polygon
MaxDrawPoints == 3

\* ------------------------------------------------------------------------
\* State of the App component (App.tsx 12-49)
\* ------------------------------------------------------------------------
VARIABLES
    items,               \* PlannerItem[]
    selectedIds,         \* Set<string>
    dragState,           \* the drag session
    view,                \* { x, y, scale }
    isDrawing,
    drawingPoints,       \* world points placed so far
    isEditingBackground,
    backgroundImage,     \* TRUE when a background image is loaded
    bgImagePosition,
    bgImageDimensions,   \* <<>> (null) or <<[w, h]>>
    tasks,               \* the bag of reader.onload and img.onload callbacks still to run
    rendered,            \* what CanvasItem computed last: [fn, a, b, value]
    nextId,              \* the next fresh id (Math.random ids never repeat)
    lastOp,              \* history: the handler that ran last, with its inputs
    nops                 \* history: the number of handler runs so far

vars == <<items, selectedIds, dragState, view, isDrawing, drawingPoints,
          isEditingBackground, backgroundImage, bgImagePosition, bgImageDimensions,
          tasks, rendered, nextId, lastOp, nops>>

\* activeResizeId: null
NoId == 0

NoDrag == [isDragging |-> FALSE, type |-> "null", initialItemsState |-> <<>>,
           startX |-> Zero, startY |-> Zero, initialViewX |-> Zero, initialViewY |-> Zero,
           activeResizeId |-> NoId, initialBgPos |-> <<>>]

Op(op, id, arg, n, x, y) == [op |-> op, id |-> id, arg |-> arg, n |-> n, x |-> x, y |-> y]

NothingRendered == [fn |-> "none", a |-> NoId, b |-> NoId, value |-> Zero]

\* the state of the component but for the collection
InitApp ==
    /\ selectedIds = {}
    /\ dragState = NoDrag
    /\ view = [x |-> Zero, y |-> Zero, scale |-> W(1)]
    /\ isDrawing = FALSE
    /\ drawingPoints = <<>>
    /\ isEditingBackground = FALSE
    /\ backgroundImage = FALSE
    /\ bgImagePosition = [x |-> Zero, y |-> Zero]
    /\ bgImageDimensions = <<>>
    /\ tasks = EmptyBag
    /\ rendered = NothingRendered
    /\ nextId = 1
    /\ lastOp = Op("init", NoId, "", 0, 0, 0)
    /\ nops = 0

Init ==
    /\ items = <<>>
    /\ InitApp

\* every run of a handler or of a callback is one step of the history
Step(op) == /\ nops < MaxOps
            /\ nops' = nops + 1
            /\ lastOp' = op
            /\ UNCHANGED rendered

\* a run that starts no load and completes none
Ran(op) == /\ Step(op)
           /\ UNCHANGED tasks

ItemIds == {items[k].id : k \in 1..Len(items)}
ItemIdsNext == {items'[k].id : k \in 1..Len(items')}

\* items.find(i => i.id === id)
FindItem(its, id) == its[CHOOSE k \in 1..Len(its) : its[k].id = id]
HasItem(its, id) == \E k \in 1..Len(its) : its[k].id = id

\* prev.map(f)
MapItems(its, f(_)) == [k \in 1..Len(its) |-> f(its[k])]

\* ------------------------------------------------------------------------
\* Inputs
\* ------------------------------------------------------------------------
\* pointer positions of the events, in pixels
PointerPts == {<<10, 10>>, <<17, 10>>, <<40, 40>>}
\* where the pointer goes down on a zone, and where the wheel turns
DownPts == {<<10, 10>>}
WheelPts == {<<10, 10>>, <<40, 40>>}

\* what the property panel sends through onUpdate (PropertiesPanel.tsx 897-1243)
PanelUpdates ==
    {[w |-> W(0)], [h |-> W(12)], [locked |-> TRUE], [locked |-> FALSE], [rotation |-> 90]}

\* the parts counts the interaction machine is driven with, two of the four
\* the panel's select offers (PropertiesPanel.tsx 1118-1121)
SplitParts == {2, 6}
Directions == {HORIZONTAL, VERTICAL}

\* ------------------------------------------------------------------------
\* addItem (App.tsx 55-80)
\* ------------------------------------------------------------------------
\* if (newItem.x < 0) newItem.x = 100 (lines 75-76)
safePlace(c) == IF FLt(c, Zero) THEN W(100) ELSE c

addItem(type) ==
    /\ Ran(Op("addItem", nextId, type, 0, 0, 0))
    /\ Len(items) < MaxItems
    /\ LET base == PlannerItem(nextId, type,
                               safePlace(FDiv(FSub(W(100), view.x), view.scale)),
                               safePlace(FDiv(FSub(W(100), view.y), view.scale)),
                               IF type = BOOTH THEN W(DEFAULT_BOOTH_W) ELSE W(DEFAULT_PILLAR_W),
                               IF type = BOOTH THEN W(DEFAULT_BOOTH_H) ELSE W(DEFAULT_PILLAR_H),
                               0, FALSE)
           newItem == [base EXCEPT !.label = IF type = BOOTH THEN <<Len(items) + 1>> ELSE NoLabel,
                                   !.fontSize = IF type = BOOTH THEN 0 ELSE 12,
                                   !.fontColor = IF type = BOOTH THEN "#334155" ELSE "#ffffff"]
       IN /\ items' = Append(items, newItem)
          /\ selectedIds' = {nextId}
          /\ nextId' = nextId + 1
    /\ UNCHANGED <<dragState, view, isDrawing, drawingPoints, isEditingBackground,
                   backgroundImage, bgImagePosition, bgImageDimensions>>

\* ------------------------------------------------------------------------
\* updateItem (App.tsx 82-85)
\* ------------------------------------------------------------------------
\* { ...item, ...updates }
Merge(item, updates) ==
    [f \in DOMAIN item |-> IF f \in DOMAIN updates THEN updates[f] ELSE item[f]]

updateItemsWith(its, sel, updates) ==
    MapItems(its, LAMBDA item : IF item.id \in sel THEN Merge(item, updates) ELSE item)

updateItem(updates) ==
    /\ Ran(Op("updateItem", NoId, CHOOSE f \in DOMAIN updates : TRUE, 0, 0, 0))
    /\ items' = IF selectedIds = {} THEN items
                ELSE updateItemsWith(items, selectedIds, updates)
    /\ UNCHANGED <<selectedIds, dragState, view, isDrawing, drawingPoints,
                   isEditingBackground, backgroundImage, bgImagePosition, bgImageDimensions, nextId>>

\* ------------------------------------------------------------------------
\* deleteItem (App.tsx 87-102)
\* ------------------------------------------------------------------------
\* mutant: every selected zone is removed, locked or not
deleteFilterSelected(its, sel) == SelectSeq(its, LAMBDA item : item.id \notin sel)

\* lines 92-95
deleteFilter(its, sel) ==
    SelectSeq(its, LAMBDA item : IF item.id \notin sel THEN TRUE ELSE item.locked)

\* mutant: the selection is kept as it was
lockedItemsIdsKept(its, sel) == sel

\* line 90
lockedItemsIds(its, sel) ==
    {its[k].id : k \in {j \in 1..Len(its) : its[j].id \in sel /\ its[j].locked}}

deleteItemEffect ==
    IF selectedIds = {}
    THEN UNCHANGED <<items, selectedIds>>
    ELSE /\ items' = deleteFilter(items, selectedIds)
         /\ selectedIds' = lockedItemsIds(items, selectedIds)

\* the panel's delete button
deleteItem ==
    /\ Ran(Op("deleteItem", NoId, "button", 0, 0, 0))
    /\ deleteItemEffect
    /\ UNCHANGED <<dragState, view, isDrawing, drawingPoints, isEditingBackground,
                   backgroundImage, bgImagePosition, bgImageDimensions, nextId>>

\* ------------------------------------------------------------------------
\* handleSplitItem (App.tsx 125-194)
\* ------------------------------------------------------------------------
\* mutant: a polygon is split like a rectangle
splitRejectedRectanglesToo(its, id) ==
    \/ ~HasItem(its, id)
    \/ FindItem(its, id).type # BOOTH

\* the early returns: no such item, not a booth, a polygon
splitRejected(its, id) ==
    \/ ~HasItem(its, id)
    \/ FindItem(its, id).type # BOOTH
    \/ Len(FindItem(its, id).points) > 0

\* the split control of the property panel, the handler's only caller
\* (App.tsx 786, 814-819): it is shown for the one selected zone when that is
\* a booth, and its select offers 2, 4, 6 and 8 parts.  The panel of
\* PropertiesPanel.tsx 1-347 (control at 192-223) shows it enabled for every
\* booth, a locked one and one drawn as a polygon included; the panel of
\* lines 349-752 (control at 593-625) disables it while the booth is locked;
\* the panel of lines 754-1249 (control at 1104-1144) does so too and hides
\* it for a polygon.
splitOffered(id) ==
    /\ selectedIds = {id}
    /\ HasItem(items, id)
    /\ FindItem(items, id).type = BOOTH

handleSplitItem(id, parts, direction) ==
    /\ Ran(Op("split", id, direction, parts, 0, 0))
    /\ IF splitRejected(items, id)
       THEN UNCHANGED <<items, selectedIds, nextId>>
       ELSE /\ Len(items) - 1 + parts <= MaxItems
            /\ items' = SelectSeq(items, LAMBDA i : i.id # id)
                          \o splitChildren(FindItem(items, id), parts, direction, nextId)
            /\ selectedIds' = nextId .. (nextId + parts - 1)
            /\ nextId' = nextId + parts
    /\ UNCHANGED <<dragState, view, isDrawing, drawingPoints, isEditingBackground,
                   backgroundImage, bgImagePosition, bgImageDimensions>>

\* ------------------------------------------------------------------------
\* normalizePoints (geometry.ts 72-98) and finishDrawing (App.tsx 306-340)
\* ------------------------------------------------------------------------
\* Math.min(...points.map(p => p[axis])), from point k on
RECURSIVE SeqMin(_, _, _)
SeqMin(ps, axis, k) ==
    IF k = Len(ps) THEN ps[k][axis] ELSE FMin(ps[k][axis], SeqMin(ps, axis, k + 1))

RECURSIVE SeqMax(_, _, _)
SeqMax(ps, axis, k) ==
    IF k = Len(ps) THEN ps[k][axis] ELSE FMax(ps[k][axis], SeqMax(ps, axis, k + 1))

\* minX, maxX, minY, maxY (lines 75-81)
extentOf(points) ==
    [minX |-> SeqMin(points, "x", 1), maxX |-> SeqMax(points, "x", 1),
     minY |-> SeqMin(points, "y", 1), maxY |-> SeqMax(points, "y", 1)]

\* w = Math.max(1, maxX - minX), h = Math.max(1, maxY - minY) (lines 83-84)
sidesOf(ext) ==
    [w |-> FMax(W(1), FSub(ext.maxX, ext.minX)),
     h |-> FMax(W(1), FSub(ext.maxY, ext.minY))]

\* one unit more than the extent along each axis
paddedSidesOf(ext) ==
    [w |-> FAdd(FSub(ext.maxX, ext.minX), W(1)),
     h |-> FAdd(FSub(ext.maxY, ext.minY), W(1))]

\* the result of lines 86-97, the points divided by divX and divY
normalizedBy(points, ext, sides, divX, divY) ==
    << [x |-> ext.minX, y |-> ext.minY, w |-> sides.w, h |-> sides.h,
        points |-> [k \in 1..Len(points) |->
                      [x |-> FDiv(FSub(points[k].x, ext.minX), divX),
                       y |-> FDiv(FSub(points[k].y, ext.minY), divY)]]] >>

\* (p.x - minX) / w, (p.y - minY) / h
normalizedInBox(points, ext, sides) == normalizedBy(points, ext, sides, sides.w, sides.h)

normalizedUniform(points, ext, sides) ==
    normalizedBy(points, ext, sides, FMax(sides.w, sides.h), FMax(sides.w, sides.h))

uniformFrom(points, ext) == normalizedUniform(points, ext, sidesOf(ext))

\* mutant: both axes are divided by the larger side
normalizePointsUniform(points) ==
    IF Len(points) = 0 THEN <<>> ELSE uniformFrom(points, extentOf(points))

paddedFrom(points, ext) == normalizedInBox(points, ext, paddedSidesOf(ext))

\* mutant: one unit is added to the sides instead of flooring them at one
normalizePointsPadded(points) ==
    IF Len(points) = 0 THEN <<>> ELSE paddedFrom(points, extentOf(points))

normalizedFrom(points, ext) == normalizedInBox(points, ext, sidesOf(ext))

\* the null result is modelled as <<>>, a result as <<[x, y, w, h, points]>>
normalizePoints(points) ==
    IF Len(points) = 0 THEN <<>> ELSE normalizedFrom(points, extentOf(points))

\* mutant: two points are enough
tooFewPointsBelowTwo(points) == Len(points) < 2

\* drawingPoints.length < 3 (line 307)
tooFewPoints(points) == Len(points) < 3

\* newItem of lines 316-332
polygonZone(normalized, id, count) ==
    [PlannerItem(id, BOOTH, normalized.x, normalized.y, normalized.w, normalized.h, 0, FALSE)
        EXCEPT !.points = normalized.points,
               !.label = <<count + 1>>,
               !.useManualArea = TRUE,
               !.manualArea = Zero]

\* the zone finishDrawing creates from the placed points (lines 313-339)
createPolygonZone ==
    /\ Len(items) < MaxItems
    /\ items' = Append(items, polygonZone(normalizePoints(drawingPoints)[1], nextId, Len(items)))
    /\ selectedIds' = {nextId}
    /\ drawingPoints' = <<>>
    /\ isDrawing' = FALSE
    /\ nextId' = nextId + 1

\* mutant: finishing with too few points leaves drawing mode as well
finishDrawingExits ==
    IF Len(drawingPoints) < 3
    THEN /\ drawingPoints' = <<>>
         /\ isDrawing' = FALSE
         /\ UNCHANGED <<items, selectedIds, nextId>>
    ELSE createPolygonZone

\* the state finishDrawing leaves; it reads the drawingPoints of its closure
finishDrawingEffect ==
    IF tooFewPoints(drawingPoints)
    THEN /\ drawingPoints' = <<>>
         /\ UNCHANGED <<items, selectedIds, isDrawing, nextId>>
    ELSE createPolygonZone

\* onDoubleClick={() => isDrawing && finishDrawing()}  (App.tsx 883)
handleDoubleClick ==
    /\ Ran(Op("doubleClick", NoId, "", 0, 0, 0))
    /\ IF isDrawing THEN finishDrawingEffect
       ELSE UNCHANGED <<items, selectedIds, isDrawing, drawingPoints, nextId>>
    /\ UNCHANGED <<dragState, view, isEditingBackground, backgroundImage,
                   bgImagePosition, bgImageDimensions>>

\* ------------------------------------------------------------------------
\* the selection and the snapshot of handleMouseDownItem (App.tsx 448-486)
\* ------------------------------------------------------------------------
MOVE == "MOVE"
RESIZE == "RESIZE"

Snapshot(it) == [x |-> it.x, y |-> it.y, w |-> it.w, h |-> it.h, rotation |-> it.rotation]

\* lines 449-466
newSelection(sel, id, type, shiftKey) ==
    IF type = MOVE
    THEN IF shiftKey
         THEN (IF id \in sel THEN sel \ {id} ELSE sel \cup {id})
         ELSE (IF id \notin sel THEN {id} ELSE sel)
    ELSE {id}

\* lines 470-482
initialStates(its, sel) ==
    LET found == {i \in sel : HasItem(its, i)} IN
    IF found = {} THEN <<>>
    ELSE [sid \in found |-> Snapshot(FindItem(its, sid))]

\* mutant: a locked zone starts a session as well
startsDragAlways(existingItem) == TRUE

\* does a pointer-down on this zone start a drag session (lines 484-486)
startsDrag(existingItem) == ~existingItem.locked

\* ------------------------------------------------------------------------
\* handleMouseDownCanvas (App.tsx 500-558)
\* ------------------------------------------------------------------------
\* screen to world: (mouse - view) / view.scale
toWorld(m, pan, scale) == FDiv(FSub(m, pan), scale)

\* Math.sqrt(dx*dx + dy*dy)
distance(dx, dy) == FSqrt(FAdd(FMul(dx, dx), FMul(dy, dy)))

\* dist < 10 / view.scale
closesLoop(start, worldX, worldY, scale) ==
    FLt(distance(FSub(start.x, worldX), FSub(start.y, worldY)), FDiv(W(10), scale))

\* the click of drawing mode at the world point (lines 529-545)
drawingClick(worldX, worldY) ==
    IF Len(drawingPoints) > 2
       /\ closesLoop(drawingPoints[1], worldX, worldY, view.scale)
    THEN \* setSelectedIds(new Set()) is overwritten by finishDrawing's own
         \* setSelectedIds when a zone is created
         /\ finishDrawingEffect
         /\ UNCHANGED dragState
    ELSE /\ Len(drawingPoints) < MaxDrawPoints
         /\ selectedIds' = {}
         /\ drawingPoints' = Append(drawingPoints, [x |-> worldX, y |-> worldY])
         /\ UNCHANGED <<items, dragState, isDrawing, nextId>>

\* what the canvas div does with a mousedown that reaches it (lines 500-558)
mouseDownOnCanvas(px, py) ==
    IF isEditingBackground /\ backgroundImage
    THEN /\ selectedIds' = {}
         /\ dragState' = [isDragging |-> TRUE, type |-> "BG_MOVE",
                          initialItemsState |-> <<>>, activeResizeId |-> NoId,
                          startX |-> W(px), startY |-> W(py),
                          initialViewX |-> view.x, initialViewY |-> view.y,
                          initialBgPos |-> <<bgImagePosition>>]
         /\ UNCHANGED <<items, isDrawing, drawingPoints, nextId>>
    ELSE IF isDrawing
    THEN drawingClick(toWorld(W(px), view.x, view.scale),
                      toWorld(W(py), view.y, view.scale))
    ELSE /\ selectedIds' = {}
         /\ dragState' = [isDragging |-> TRUE, type |-> "PAN",
                          initialItemsState |-> <<>>, activeResizeId |-> NoId,
                          startX |-> W(px), startY |-> W(py),
                          initialViewX |-> view.x, initialViewY |-> view.y,
                          initialBgPos |-> <<>>]
         /\ UNCHANGED <<items, isDrawing, drawingPoints, nextId>>

handleMouseDownCanvas(px, py) ==
    /\ Ran(Op("mouseDownCanvas", NoId, "", 0, px, py))
    /\ mouseDownOnCanvas(px, py)
    /\ UNCHANGED <<view, isEditingBackground, backgroundImage, bgImagePosition,
                   bgImageDimensions>>

\* ------------------------------------------------------------------------
\* handleMouseDownItem (App.tsx 404-498), the onMouseDown of a zone and of
\* its resize handle (CanvasItem).  In background-edit mode and in drawing
\* mode it returns before e.stopPropagation() (lines 405-408), so the event
\* goes on to the canvas div and handleMouseDownCanvas runs on it.
\* ------------------------------------------------------------------------
\* Ctrl+Click: the duplicate, selected and dragged (lines 412-446)
duplicateItem(existingItem, px, py) ==
    /\ Len(items) < MaxItems
    /\ items' = Append(items, [existingItem EXCEPT !.id = nextId,
                                                  !.x = FAdd(existingItem.x, W(10)),
                                                  !.y = FAdd(existingItem.y, W(10)),
                                                  !.locked = FALSE])
    /\ selectedIds' = {nextId}
    /\ nextId' = nextId + 1
    /\ dragState' = [isDragging |-> TRUE, type |-> "ITEM_MOVE",
                     initialItemsState |->
                        (nextId :> [Snapshot(existingItem)
                                      EXCEPT !.x = FAdd(existingItem.x, W(10)),
                                             !.y = FAdd(existingItem.y, W(10))]),
                     activeResizeId |-> NoId,
                     startX |-> W(px), startY |-> W(py),
                     initialViewX |-> Zero, initialViewY |-> Zero,
                     initialBgPos |-> <<>>]

\* the selection and the drag session of a pointer-down on a zone (lines 448-497)
selectItem(existingItem, sel, type, px, py) ==
    /\ selectedIds' = sel
    /\ dragState' =
         IF startsDrag(existingItem)
         THEN [isDragging |-> TRUE,
               type |-> IF type = MOVE THEN "ITEM_MOVE" ELSE "ITEM_RESIZE",
               initialItemsState |-> initialStates(items, sel),
               activeResizeId |-> existingItem.id,
               startX |-> W(px), startY |-> W(py),
               initialViewX |-> Zero, initialViewY |-> Zero,
               initialBgPos |-> <<>>]
         ELSE dragState
    /\ UNCHANGED <<items, nextId>>

handleMouseDownItem(id, type, ctrlKey, shiftKey, px, py) ==
    /\ Ran(Op("mouseDownItem", id, type, IF ctrlKey THEN 1 ELSE IF shiftKey THEN 2 ELSE 0,
              px, py))
    /\ id \in ItemIds
    /\ IF isEditingBackground \/ isDrawing
       THEN mouseDownOnCanvas(px, py)
       ELSE /\ IF type = MOVE /\ ctrlKey
               THEN duplicateItem(FindItem(items, id), px, py)
               ELSE selectItem(FindItem(items, id),
                               newSelection(selectedIds, id, type, shiftKey), type, px, py)
            /\ UNCHANGED <<isDrawing, drawingPoints>>
    /\ UNCHANGED <<view, isEditingBackground, backgroundImage, bgImagePosition,
                   bgImageDimensions>>

\* ------------------------------------------------------------------------
\* handleMouseMove (App.tsx 560-697)
\* ------------------------------------------------------------------------
\* Math.round(worldD / GRID_SIZE) * GRID_SIZE
snapToGrid(worldD) == FMul(MathRound(FDiv(worldD, W(GRID_SIZE))), W(GRID_SIZE))

\* dx / view.scale
toWorldDelta(d, scale) == FDiv(d, scale)

\* mutant: the delta is added to the zone's current position
movedCoordCumulative(initial, current, worldD) == FAdd(current, snapToGrid(worldD))

\* the x (or y) a move drag writes: the snapshot's plus the snapped delta
movedCoord(initial, current, worldD) == FAdd(initial, snapToGrid(worldD))

\* mutant: zones outside the snapshot follow the drag from where they are
moveItemsAll(its, initialItemsState, worldDx, worldDy) ==
    MapItems(its, LAMBDA item :
        IF item.locked THEN item
        ELSE IF item.id \notin DOMAIN initialItemsState
        THEN [item EXCEPT !.x = FAdd(item.x, snapToGrid(worldDx)),
                          !.y = FAdd(item.y, snapToGrid(worldDy))]
        ELSE [item EXCEPT !.x = movedCoord(initialItemsState[item.id].x, item.x, worldDx),
                          !.y = movedCoord(initialItemsState[item.id].y, item.y, worldDy)])

\* ITEM_MOVE, lines 594-614
moveItems(its, initialItemsState, worldDx, worldDy) ==
    MapItems(its, LAMBDA item :
        IF item.locked THEN item
        ELSE IF item.id \notin DOMAIN initialItemsState THEN item
        ELSE [item EXCEPT !.x = movedCoord(initialItemsState[item.id].x, item.x, worldDx),
                          !.y = movedCoord(initialItemsState[item.id].y, item.y, worldDy)])

\* mutant: the snapped size is not clamped to the grid unit
snapUnclamped(raw) == snapToGrid(raw)

\* Math.max(GRID_SIZE, Math.round(raw / GRID_SIZE) * GRID_SIZE), line 670
snapAndClamp(raw) == FMax(W(GRID_SIZE), snapToGrid(raw))

\* vx, vy: the vector from the centre to the bottom-right corner of aabb
cornerVector(initialItem, aabb) ==
    [x |-> FSub(FAdd(aabb.x, aabb.w), FAdd(initialItem.x, FDiv(initialItem.w, W(2)))),
     y |-> FSub(FAdd(aabb.y, aabb.h), FAdd(initialItem.y, FDiv(initialItem.h, W(2))))]

\* the vector from the centre to the handle, which sits on the bottom-right
\* corner of the bounding box (lines 626-637)
handleVector(initialItem) ==
    cornerVector(initialItem,
                 getBoundingBox(PlannerItem(NoId, BOOTH, initialItem.x, initialItem.y,
                                            initialItem.w, initialItem.h,
                                            initialItem.rotation, FALSE)))

\* v.x * Math.cos(rad) - v.y * Math.sin(rad), rad = (deg * Math.PI) / 180
turnedX(v, deg) == FSub(FMul(v.x, Cos(deg)), FMul(v.y, Sin(deg)))

\* v.x * Math.sin(rad) + v.y * Math.cos(rad)
turnedY(v, deg) == FAdd(FMul(v.x, Sin(deg)), FMul(v.y, Cos(deg)))

\* hxAbs < 1 ? 0 : Math.sign(hx)
handleSign(h) == IF FLt(FAbs(h), W(1)) THEN 0 ELSE FSign(h)

\* signW (lines 640-651): the handle vector turned by -rotation
resizeSignW(initialItem) ==
    handleSign(turnedX(handleVector(initialItem), -initialItem.rotation))

\* signH (line 652)
resizeSignH(initialItem) ==
    handleSign(turnedY(handleVector(initialItem), -initialItem.rotation))

\* [x |-> worldDx, y |-> worldDy]
vector(x, y) == [x |-> x, y |-> y]

\* mutant: the sizes follow the pointer and the top-left corner stays
resizedGeometryTopLeft(initialItem, worldDx, worldDy) ==
    [x |-> initialItem.x, y |-> initialItem.y,
     w |-> snapAndClamp(FAdd(initialItem.w, worldDx)),
     h |-> snapAndClamp(FAdd(initialItem.h, worldDy))]

\* the centre moves by the local shift turned back into world axes and the
\* top-left corner follows from the new centre (lines 681-692)
resizeAboutCentre(initialItem, newW, newH, csl) ==
    [x |-> FSub(FAdd(FAdd(initialItem.x, FDiv(initialItem.w, W(2))),
                     turnedX(csl, initialItem.rotation)),
                FDiv(newW, W(2))),
     y |-> FSub(FAdd(FAdd(initialItem.y, FDiv(initialItem.h, W(2))),
                     turnedY(csl, initialItem.rotation)),
                FDiv(newH, W(2))),
     w |-> newW, h |-> newH]

\* cslX, cslY: the centre shift in the local frame (lines 673-679)
resizeToSize(initialItem, signW, signH, newW, newH) ==
    resizeAboutCentre(initialItem, newW, newH,
                      vector(FMul(FDiv(FSub(newW, initialItem.w), W(2)), W(signW)),
                             FMul(FDiv(FSub(newH, initialItem.h), W(2)), W(signH))))

\* newW, newH (lines 662-671)
resizeByLocalDelta(initialItem, signW, signH, localDx, localDy) ==
    resizeToSize(initialItem, signW, signH,
                 snapAndClamp(FAdd(initialItem.w, FMul(localDx, W(signW)))),
                 snapAndClamp(FAdd(initialItem.h, FMul(localDy, W(signH)))))

\* localDx / localDy: the world delta in the zone's local frame (lines 658-660)
resizeBySigns(initialItem, worldDx, worldDy, signW, signH) ==
    resizeByLocalDelta(initialItem, signW, signH,
                       turnedX(vector(worldDx, worldDy), -initialItem.rotation),
                       turnedY(vector(worldDx, worldDy), -initialItem.rotation))

\* the geometry a resize drag writes from the snapshot (lines 626-694)
resizedGeometry(initialItem, worldDx, worldDy) ==
    resizeBySigns(initialItem, worldDx, worldDy,
                  resizeSignW(initialItem), resizeSignH(initialItem))

\* return { ...item, x: newX, y: newY, w: newW, h: newH }
withGeometry(item, g) == [item EXCEPT !.x = g.x, !.y = g.y, !.w = g.w, !.h = g.h]

\* ITEM_RESIZE, lines 616-696
resizeItems(its, initialItemsState, activeResizeId, worldDx, worldDy) ==
    MapItems(its, LAMBDA item :
        IF item.id # activeResizeId THEN item
        ELSE IF item.locked THEN item
        ELSE IF activeResizeId \notin DOMAIN initialItemsState THEN item
        ELSE withGeometry(item, resizedGeometry(initialItemsState[activeResizeId],
                                                worldDx, worldDy)))

\* the branches of lines 580-696 for the pointer offset (dx, dy) in pixels
\* and in world units
dragBy(dx, dy, worldDx, worldDy) ==
    IF dragState.type = "PAN"
    THEN /\ view' = [view EXCEPT !.x = FAdd(dragState.initialViewX, dx),
                                 !.y = FAdd(dragState.initialViewY, dy)]
         /\ UNCHANGED <<items, bgImagePosition>>
    ELSE IF dragState.type = "BG_MOVE" /\ dragState.initialBgPos # <<>>
    THEN /\ bgImagePosition' = [x |-> FAdd(dragState.initialBgPos[1].x, worldDx),
                                y |-> FAdd(dragState.initialBgPos[1].y, worldDy)]
         /\ UNCHANGED <<items, view>>
    ELSE IF dragState.type = "ITEM_MOVE"
    THEN /\ items' = moveItems(items, dragState.initialItemsState, worldDx, worldDy)
         /\ UNCHANGED <<view, bgImagePosition>>
    ELSE IF dragState.type = "ITEM_RESIZE" /\ dragState.activeResizeId # NoId
    THEN /\ items' = resizeItems(items, dragState.initialItemsState,
                                 dragState.activeResizeId, worldDx, worldDy)
         /\ UNCHANGED <<view, bgImagePosition>>
    ELSE UNCHANGED <<items, view, bgImagePosition>>

\* dx = e.clientX - dragState.startX, worldDx = dx / view.scale
dragOffset(dx, dy) ==
    dragBy(dx, dy, toWorldDelta(dx, view.scale), toWorldDelta(dy, view.scale))

handleMouseMove(px, py) ==
    /\ Ran(Op("mouseMove", NoId, "", 0, px, py))
    /\ IF ~dragState.isDragging
       THEN UNCHANGED <<items, view, bgImagePosition>>
       ELSE dragOffset(FSub(W(px), dragState.startX), FSub(W(py), dragState.startY))
    /\ UNCHANGED <<selectedIds, dragState, isDrawing, drawingPoints, isEditingBackground,
                   backgroundImage, bgImageDimensions, nextId>>

\* ------------------------------------------------------------------------
\* handleMouseUp (App.tsx 699-703)
\* ------------------------------------------------------------------------
\* mutant: only the flag is cleared
endDragFlagOnly(ds) == [ds EXCEPT !.isDragging = FALSE]

endDrag(ds) == [ds EXCEPT !.isDragging = FALSE, !.type = "null",
                          !.initialItemsState = <<>>, !.activeResizeId = NoId]

handleMouseUp ==
    /\ Ran(Op("mouseUp", NoId, "", 0, 0, 0))
    /\ dragState' = IF dragState.isDragging THEN endDrag(dragState) ELSE dragState
    /\ UNCHANGED <<items, selectedIds, view, isDrawing, drawingPoints, isEditingBackground,
                   backgroundImage, bgImagePosition, bgImageDimensions, nextId>>

\* ------------------------------------------------------------------------
\* handleKeyDown (App.tsx 707-770)
\* ------------------------------------------------------------------------
Arrows == {"ArrowUp", "ArrowDown", "ArrowLeft", "ArrowRight"}

\* mutant: Escape drops the last point only
escapeDrawingPointsDropLast(points) == SubSeq(points, 1, Len(points) - 1)

\* the drawing points Escape leaves while drawing (lines 711-713)
escapeDrawingPoints(points) == <<>>

\* the drag session Escape leaves: while drawing line 718, otherwise untouched
escapeDragState(ds, drawing) ==
    IF drawing THEN [ds EXCEPT !.isDragging = FALSE, !.type = "null"] ELSE ds

\* mutant: the plain step is one grid unit
nudgeStepGrid(shiftKey) == IF shiftKey THEN W(10) ELSE W(GRID_SIZE)

\* e.shiftKey ? 10 : 1
nudgeStep(shiftKey) == IF shiftKey THEN W(10) ELSE W(1)

\* lines 762-768: a selected zone moves by the step unless it is locked
nudgeItems(its, sel, key, shiftKey) ==
    LET step == nudgeStep(shiftKey)
        dx == IF key = "ArrowLeft" THEN FNeg(step) ELSE IF key = "ArrowRight" THEN step ELSE Zero
        dy == IF key = "ArrowUp" THEN FNeg(step) ELSE IF key = "ArrowDown" THEN step ELSE Zero
    IN MapItems(its, LAMBDA item :
         IF item.id \in sel
         THEN (IF item.locked THEN item
               ELSE [item EXCEPT !.x = FAdd(item.x, dx), !.y = FAdd(item.y, dy)])
         ELSE item)

\* typing: the event's target is an input, a textarea, a select or editable
handleKeyDown(key, shiftKey, typing) ==
    /\ Ran(Op("keyDown", NoId, key, IF shiftKey THEN 1 ELSE 0, IF typing THEN 1 ELSE 0, 0))
    /\ IF key = "Escape" /\ isDrawing
       THEN /\ IF Len(drawingPoints) > 0
               THEN /\ drawingPoints' = escapeDrawingPoints(drawingPoints)
                    /\ UNCHANGED isDrawing
               ELSE /\ isDrawing' = FALSE
                    /\ UNCHANGED drawingPoints
            /\ dragState' = escapeDragState(dragState, TRUE)
            /\ UNCHANGED <<items, selectedIds, nextId>>
       ELSE IF key = "Escape" /\ selectedIds # {}
       THEN /\ selectedIds' = {}
            /\ dragState' = escapeDragState(dragState, FALSE)
            /\ UNCHANGED <<items, isDrawing, drawingPoints, nextId>>
       ELSE IF key = "Enter" /\ isDrawing
       THEN /\ finishDrawingEffect
            /\ UNCHANGED dragState
       ELSE IF typing \/ selectedIds = {}
       THEN UNCHANGED <<items, selectedIds, dragState, isDrawing, drawingPoints, nextId>>
       ELSE IF key \in {"Delete", "Backspace"}
       THEN /\ deleteItemEffect
            /\ UNCHANGED <<dragState, isDrawing, drawingPoints, nextId>>
       ELSE IF key \in Arrows
       THEN /\ items' = nudgeItems(items, selectedIds, key, shiftKey)
            /\ UNCHANGED <<selectedIds, dragState, isDrawing, drawingPoints, nextId>>
       ELSE UNCHANGED <<items, selectedIds, dragState, isDrawing, drawingPoints, nextId>>
    /\ UNCHANGED <<view, isEditingBackground, backgroundImage, bgImagePosition,
                   bgImageDimensions>>

\* ------------------------------------------------------------------------
\* onWheel (App.tsx 348-398)
\* ------------------------------------------------------------------------
\* Math.exp(0.1), Math.exp(-0.1): 1.1051709180756477, 0.9048374180359595
ExpViewIn == Bin(0, <<53, 22957, 11975, 35>>, -50)
ExpViewOut == Bin(0, <<5533, 6613, 26843, 115>>, -52)
\* Math.exp(0.05), Math.exp(-0.05): 1.0512710963760241, 0.951229424500714
ExpBgIn == Bin(0, <<9267, 18501, 18438, 134>>, -52)
ExpBgOut == Bin(0, <<4947, 12455, 24817, 121>>, -52)
\* the clamp of line 381: the doubles 0.1 and 5
MinScale == Bin(0, <<19661, 6553, 13107, 102>>, -55)
MaxScale == W(5)

\* mutant: the scale is not clamped
clampScaleNone(s) == s

\* Math.min(Math.max(0.1, currentScale * scaleChange), 5)
clampScale(s) == FMin(FMax(MinScale, s), MaxScale)

\* mutant: the pan ignores the new scale
zoomPanUnscaled(mouse, world, newScale) == FSub(mouse, world)

\* newViewX = mouseX - worldX * newScale (lines 389-390)
zoomPan(mouse, world, newScale) == FSub(mouse, FMul(world, newScale))

\* the background zoom about the world point of the pointer (lines 355-373)
zoomBackground(scaleChange, worldMouseX, worldMouseY) ==
    /\ bgImageDimensions' =
          << [w |-> FMul(bgImageDimensions[1].w, scaleChange),
              h |-> FMul(bgImageDimensions[1].h, scaleChange)] >>
    /\ bgImagePosition' =
          [x |-> FSub(worldMouseX, FMul(FSub(worldMouseX, bgImagePosition.x), scaleChange)),
           y |-> FSub(worldMouseY, FMul(FSub(worldMouseY, bgImagePosition.y), scaleChange))]
    /\ UNCHANGED view

\* the view zoom about the pointer (lines 386-396)
zoomView(mouseX, mouseY, newScale) ==
    /\ view' = [scale |-> newScale,
                x |-> zoomPan(mouseX, toWorld(mouseX, view.x, view.scale), newScale),
                y |-> zoomPan(mouseY, toWorld(mouseY, view.y, view.scale), newScale)]
    /\ UNCHANGED <<bgImagePosition, bgImageDimensions>>

\* delta = -Math.sign(e.deltaY): 1 for a turn away from the user, -1 for a
\* turn towards the user, 0 (the sign of a deltaY of 0) for an event that
\* scrolls sideways only
wheelDelta(deltaY) == IF deltaY < 0 THEN 1 ELSE IF deltaY > 0 THEN -1 ELSE 0

\* Math.exp(delta * zoomIntensity) of the view zoom (lines 377-378) and of
\* the background zoom (lines 357-358); Math.exp of a zero is 1
viewScaleChange(delta) == IF delta = 1 THEN ExpViewIn ELSE IF delta = -1 THEN ExpViewOut ELSE W(1)
bgScaleChange(delta) == IF delta = 1 THEN ExpBgIn ELSE IF delta = -1 THEN ExpBgOut ELSE W(1)

\* the name of the turn in the history
wheelTurn(deltaY) == IF deltaY < 0 THEN "in" ELSE IF deltaY > 0 THEN "out" ELSE "none"

\* the deltaY of the wheel events: one notch either way, and none
WheelDeltaYs == {-100, 0, 100}

onWheel(deltaY, px, py) ==
    /\ Ran(Op("wheel", NoId, wheelTurn(deltaY), 0, px, py))
    /\ IF isEditingBackground /\ backgroundImage /\ bgImageDimensions # <<>>
       THEN zoomBackground(bgScaleChange(wheelDelta(deltaY)),
                           toWorld(W(px), view.x, view.scale),
                           toWorld(W(py), view.y, view.scale))
       ELSE zoomView(W(px), W(py),
                     clampScale(FMul(view.scale, viewScaleChange(wheelDelta(deltaY)))))
    /\ UNCHANGED <<items, selectedIds, dragState, isDrawing, drawingPoints,
                   isEditingBackground, backgroundImage, nextId>>

\* resetView (App.tsx 286-288)
resetView ==
    /\ Ran(Op("resetView", NoId, "", 0, 0, 0))
    /\ view' = [x |-> Zero, y |-> Zero, scale |-> W(1)]
    /\ UNCHANGED <<items, selectedIds, dragState, isDrawing, drawingPoints,
                   isEditingBackground, backgroundImage, bgImagePosition,
                   bgImageDimensions, nextId>>

\* ------------------------------------------------------------------------
\* Toolbar: drawing mode, background image (App.tsx 196-219, 797-822)
\* ------------------------------------------------------------------------
\* the toolbar's draw button: setIsDrawing(!isDrawing)
setIsDrawing ==
    /\ Ran(Op("setIsDrawing", NoId, "", 0, 0, 0))
    /\ isDrawing' = ~isDrawing
    /\ UNCHANGED <<items, selectedIds, dragState, view, drawingPoints,
                   isEditingBackground, backgroundImage, bgImagePosition,
                   bgImageDimensions, nextId>>

\* the toolbar's edit button (Toolbar.tsx 263): setIsEditingBackground(!isEditingBackground)
setIsEditingBackground ==
    /\ Ran(Op("setIsEditingBackground", NoId, "", 0, 0, 0))
    /\ isEditingBackground' = ~isEditingBackground
    /\ UNCHANGED <<items, selectedIds, dragState, view, isDrawing, drawingPoints,
                   backgroundImage, bgImagePosition, bgImageDimensions, nextId>>

clearBackground ==
    /\ Ran(Op("clearBackground", NoId, "", 0, 0, 0))
    /\ backgroundImage' = FALSE
    /\ bgImageDimensions' = <<>>
    /\ bgImagePosition' = [x |-> Zero, y |-> Zero]
    /\ isEditingBackground' = FALSE
    /\ UNCHANGED <<items, selectedIds, dragState, view, isDrawing, drawingPoints, nextId>>

\* the X and Y fields of the background (Toolbar.tsx 273, 277):
\* setBgImagePosition({ ...bgImagePosition, [axis]: Number(e.target.value) })
setBgImagePosition(axis, value) ==
    /\ Ran(Op("setBgImagePosition", NoId, axis, value, 0, 0))
    /\ bgImagePosition' = [bgImagePosition EXCEPT ![axis] = W(value)]
    /\ UNCHANGED <<items, selectedIds, dragState, view, isDrawing, drawingPoints,
                   isEditingBackground, backgroundImage, bgImageDimensions, nextId>>

\* { ...bgImageDimensions }: the spread of null has no field
spreadDimensions(dims) == IF dims = <<>> THEN [w |-> Undefined, h |-> Undefined] ELSE dims[1]

\* the width and height fields of the background (Toolbar.tsx 281, 285):
\* setBgImageDimensions({ ...bgImageDimensions, [side]: Number(e.target.value) })
setBgImageDimensions(side, value) ==
    /\ Ran(Op("setBgImageDimensions", NoId, side, value, 0, 0))
    /\ bgImageDimensions' = << [spreadDimensions(bgImageDimensions) EXCEPT ![side] = W(value)] >>
    /\ UNCHANGED <<items, selectedIds, dragState, view, isDrawing, drawingPoints,
                   isEditingBackground, backgroundImage, bgImagePosition, nextId>>

\* the numbers typed into the fields of the background
BgPositionValues == {33, -7}
BgDimensionValues == {250, 0}

\* ------------------------------------------------------------------------
\* handleImageUpload (App.tsx 196-212): the handler starts a FileReader; its
\* onload sets the image and starts an Image, whose onload sets the
\* dimensions and the position.  Each callback runs in a task of its own,
\* and any handler can run in between.
\* ------------------------------------------------------------------------
\* loads started and not yet completed
MaxTasks == 2

\* the image the model uploads, in pixels
UploadW == 100
UploadH == 80

\* a project file: its items, bgImage, bgImageDimensions and
\* bgImagePosition (<<>> when the file has none); valid is Array.isArray(items)
ProjectFile(its, bgImage, dims, pos) ==
    [valid |-> TRUE, items |-> its, bgImage |-> bgImage,
     bgImageDimensions |-> dims, bgImagePosition |-> pos]

NoFile == [ProjectFile(<<>>, FALSE, <<>>, <<>>) EXCEPT !.valid = FALSE]

\* the callbacks: reader.onload of handleImageUpload, reader.onload of
\* handleImportProject with the file read, and img.onload, which sets the
\* position as well when the image was uploaded (line 206)
UploadRead == [task |-> "reader.onload", of |-> "imageUpload", file |-> NoFile, position |-> TRUE]
ImportRead(file) == [task |-> "reader.onload", of |-> "import", file |-> file, position |-> FALSE]
ImageLoad(position) == [task |-> "img.onload", of |-> "", file |-> NoFile, position |-> position]

Pending == BagToSet(tasks)
starts(t) == tasks (+) SetToBag({t})
completes(t) == tasks (-) SetToBag({t})

\* reader.readAsDataURL(file) (line 210)
handleImageUpload ==
    /\ Step(Op("imageUpload", NoId, "", 0, 0, 0))
    /\ BagCardinality(tasks) < MaxTasks
    /\ tasks' = starts(UploadRead)
    /\ UNCHANGED <<items, selectedIds, dragState, view, isDrawing, drawingPoints,
                   isEditingBackground, backgroundImage, bgImagePosition,
                   bgImageDimensions, nextId>>

\* reader.onload (lines 200-209): setBackgroundImage(res), img.src = res
uploadReaderOnload ==
    /\ Step(Op("reader.onload", NoId, "imageUpload", 0, 0, 0))
    /\ UploadRead \in Pending
    /\ backgroundImage' = TRUE
    /\ tasks' = completes(UploadRead) (+) SetToBag({ImageLoad(TRUE)})
    /\ UNCHANGED <<items, selectedIds, dragState, view, isDrawing, drawingPoints,
                   isEditingBackground, bgImagePosition, bgImageDimensions, nextId>>

\* img.onload (lines 204-207 and 251-253): the dimensions of the image, and
\* the position (0, 0) for an uploaded image
imgOnload(position) ==
    /\ Step(Op("img.onload", NoId, IF position THEN "imageUpload" ELSE "import", 0, 0, 0))
    /\ ImageLoad(position) \in Pending
    /\ bgImageDimensions' = << [w |-> W(UploadW), h |-> W(UploadH)] >>
    /\ bgImagePosition' = IF position THEN [x |-> Zero, y |-> Zero] ELSE bgImagePosition
    /\ tasks' = completes(ImageLoad(position))
    /\ UNCHANGED <<items, selectedIds, dragState, view, isDrawing, drawingPoints,
                   isEditingBackground, backgroundImage, nextId>>

\* ------------------------------------------------------------------------
\* handleImportProject (App.tsx 221-284): the handler starts a FileReader;
\* its onload parses the file and sets the project
\* ------------------------------------------------------------------------
\* the items of the project files the model imports
Project1 ==
    << [PlannerItem(101, BOOTH, W(0), W(0), W(40), W(20), 0, TRUE) EXCEPT !.label = <<1>>],
       [PlannerItem(102, PILLAR, W(30), W(10), W(20), W(20), 0, FALSE) EXCEPT !.fontSize = 12] >>

Project2 ==
    << [PlannerItem(201, BOOTH, W(20), W(20), W(30), W(10), 90, FALSE)
          EXCEPT !.label = <<1>>, !.useManualArea = TRUE, !.manualArea = W(9),
                 !.color = "#fee2e2", !.notes = "corner"] >>

\* exports of earlier sessions: without an image, with an image and its
\* dimensions and position, with an image alone; and a file that is no project
ImportableProjects ==
    {ProjectFile(Project1, FALSE, <<>>, <<>>),
     ProjectFile(Project2, FALSE, <<>>, <<>>),
     ProjectFile(Project1, TRUE, << [w |-> W(UploadW), h |-> W(UploadH)] >>,
                 << [x |-> W(5), y |-> W(6)] >>),
     ProjectFile(Project1, TRUE, <<>>, <<>>),
     NoFile}

\* reader.readAsText(file) (line 283)
handleImportProject(file) ==
    /\ Step(Op("import", NoId, "", 0, 0, 0))
    /\ BagCardinality(tasks) < MaxTasks
    /\ tasks' = starts(ImportRead(file))
    /\ UNCHANGED <<items, selectedIds, dragState, view, isDrawing, drawingPoints,
                   isEditingBackground, backgroundImage, bgImagePosition,
                   bgImageDimensions, nextId>>

\* the background of an imported project (lines 244-266); the dimensions
\* stay what they were until img.onload when the file has an image without them
importBackground(file) ==
    IF file.bgImage
    THEN /\ backgroundImage' = TRUE
         /\ bgImageDimensions' = IF file.bgImageDimensions # <<>>
                                 THEN file.bgImageDimensions ELSE bgImageDimensions
         /\ bgImagePosition' = IF file.bgImagePosition # <<>>
                               THEN file.bgImagePosition[1] ELSE [x |-> Zero, y |-> Zero]
    ELSE /\ backgroundImage' = FALSE
         /\ bgImageDimensions' = <<>>
         /\ bgImagePosition' = [x |-> Zero, y |-> Zero]

\* the loads of the callback: the image of a file that has no dimensions (lines 249-254)
importStarts(file) ==
    IF file.bgImage /\ file.bgImageDimensions = <<>>
    THEN SetToBag({ImageLoad(FALSE)}) ELSE EmptyBag

\* reader.onload (lines 226-282)
importReaderOnload(file) ==
    /\ Step(Op("reader.onload", NoId, "import", 0, 0, 0))
    /\ ImportRead(file) \in Pending
    /\ IF file.valid
       THEN /\ items' = file.items
            /\ importBackground(file)
            /\ selectedIds' = {}
            /\ isEditingBackground' = FALSE
            /\ tasks' = completes(ImportRead(file)) (+) importStarts(file)
       ELSE /\ tasks' = completes(ImportRead(file))
            /\ UNCHANGED <<items, backgroundImage, bgImageDimensions, bgImagePosition,
                           selectedIds, isEditingBackground>>
    /\ UNCHANGED <<dragState, view, isDrawing, drawingPoints, nextId>>

\* ------------------------------------------------------------------------
\* The interaction state machine
\* ------------------------------------------------------------------------
\* <<key, shiftKey, typing>>
KeyEvents == {<<"Escape", FALSE, FALSE>>, <<"Enter", FALSE, FALSE>>,
              <<"Delete", FALSE, FALSE>>, <<"Backspace", FALSE, TRUE>>,
              <<"ArrowRight", FALSE, FALSE>>, <<"ArrowUp", TRUE, FALSE>>}

Next ==
    \/ \E type \in {BOOTH, PILLAR} : addItem(type)
    \/ \E updates \in PanelUpdates : updateItem(updates)
    \/ deleteItem
    \/ \E id \in ItemIds, parts \in SplitParts, direction \in Directions :
          splitOffered(id) /\ handleSplitItem(id, parts, direction)
    \/ \E id \in ItemIds, type \in {MOVE, RESIZE}, mods \in {"", "ctrl", "shift"},
          p \in DownPts :
          handleMouseDownItem(id, type, mods = "ctrl", mods = "shift", p[1], p[2])
    \/ \E p \in PointerPts : handleMouseDownCanvas(p[1], p[2])
    \/ \E p \in PointerPts : handleMouseMove(p[1], p[2])
    \/ handleMouseUp
    \/ \E e \in KeyEvents : handleKeyDown(e[1], e[2], e[3])
    \/ handleDoubleClick
    \/ \E deltaY \in WheelDeltaYs, p \in WheelPts : onWheel(deltaY, p[1], p[2])
    \/ resetView
    \/ setIsDrawing
    \/ handleImageUpload
    \/ uploadReaderOnload
    \/ \E position \in BOOLEAN : imgOnload(position)
    \/ \E file \in ImportableProjects : handleImportProject(file)
    \/ \E file \in ImportableProjects : importReaderOnload(file)
    \* the toolbar shows the delete button with an image (Toolbar.tsx 227-254)
    \/ backgroundImage /\ clearBackground
    \* and the edit button and the fields once the image has dimensions
    \* (Toolbar.tsx 260-287; pointer-events-none keeps the pointer from the
    \* fields outside background-edit mode, not the keyboard)
    \/ (backgroundImage /\ bgImageDimensions # <<>>) /\ setIsEditingBackground
    \/ /\ backgroundImage /\ bgImageDimensions # <<>>
       /\ \E axis \in {"x", "y"}, value \in BgPositionValues : setBgImagePosition(axis, value)
    \/ /\ backgroundImage /\ bgImageDimensions # <<>>
       /\ \E side \in {"w", "h"}, value \in BgDimensionValues : setBgImageDimensions(side, value)

Spec == Init /\ [][Next]_vars

\* ------------------------------------------------------------------------
\* The area functions, applied to bounded collections
\* (CanvasItem renders calculateBoothNetArea(item, allItems) for a booth)
\* ------------------------------------------------------------------------
MaxPillars == 2

renderNetArea(k) ==
    /\ rendered.fn = "none"
    /\ items[k].type = BOOTH
    /\ rendered' = [fn |-> "net", a |-> k, b |-> NoId,
                    value |-> calculateBoothNetArea(items[k], items)]
    /\ UNCHANGED <<items, selectedIds, dragState, view, isDrawing, drawingPoints,
                   isEditingBackground, backgroundImage, bgImagePosition,
                   bgImageDimensions, tasks, nextId, lastOp, nops>>

renderIntersection(k, j) ==
    /\ rendered.fn = "none"
    /\ items[k].type = BOOTH
    /\ items[j].type = PILLAR
    /\ rendered' = [fn |-> "intersection", a |-> k, b |-> j,
                    value |-> getIntersectionArea(items[k], items[j])]
    /\ UNCHANGED <<items, selectedIds, dragState, view, isDrawing, drawingPoints,
                   isEditingBackground, backgroundImage, bgImagePosition,
                   bgImageDimensions, tasks, nextId, lastOp, nops>>

\* where the booths stand: at the origin, and at 0.1, 12.000000000000004
\* (12 + 2^-48), off the whole numbers as the panel's X and Y fields
\* (PropertiesPanel.tsx 961-971: Number(e.target.value)) and a drop on a
\* zoomed canvas leave a zone; y + 20 then rounds to 32
AreaPositions ==
    {<<Zero, Zero>>, <<FDiv(W(1), W(10)), FAdd(W(12), Bin(0, <<1>>, -48))>>}

AreaBooths ==
    {PlannerItem(1, BOOTH, p[1], p[2], W(s[1]), W(s[2]), r, FALSE) :
        p \in AreaPositions, s \in {<<40, 20>>, <<30, 30>>}, r \in {0, 30, 45, 90}}

AreaPillars ==
    {PlannerItem(2, PILLAR, W(p), W(p), W(s), W(s), r, FALSE) :
        p \in {-10, 25, 100}, s \in {10, 60}, r \in {0, 45}}

\* the scenario of the default sizes: a 200 x 200 booth and a 40 x 40 pillar
ScenarioBooth == PlannerItem(1, BOOTH, W(0), W(0), W(DEFAULT_BOOTH_W), W(DEFAULT_BOOTH_H), 0, FALSE)
ScenarioPillar == PlannerItem(2, PILLAR, W(150), W(150), W(DEFAULT_PILLAR_W), W(DEFAULT_PILLAR_H), 0, FALSE)

\* a 200 x 200 booth at x = 64.00000000000003 (64 + 2^-45), where x + w
\* rounds to 264, and a 400 x 400 pillar over it
OffGridBooth ==
    PlannerItem(1, BOOTH, FAdd(W(64), Bin(0, <<1>>, -45)), Zero,
                W(DEFAULT_BOOTH_W), W(DEFAULT_BOOTH_H), 0, FALSE)
CoveringPillar == PlannerItem(2, PILLAR, Zero, Zero, W(400), W(400), 0, FALSE)

\* the k-th zone of a collection carries the id k
Renumber(its) == [k \in 1..Len(its) |-> [its[k] EXCEPT !.id = k]]

\* a second booth that overlaps the first
AreaNeighbour == PlannerItem(3, BOOTH, W(10), W(5), W(30), W(30), 0, FALSE)

AreaCollections ==
    {<<ScenarioBooth, ScenarioPillar>>, <<OffGridBooth, CoveringPillar>>} \cup
    UNION {{Renumber(<<b>> \o ps) : b \in AreaBooths, ps \in [1..n -> AreaPillars]} :
             n \in 0..MaxPillars} \cup
    UNION {{Renumber(<<b>> \o ps \o <<AreaNeighbour>>) :
               b \in AreaBooths, ps \in [1..n -> AreaPillars]} : n \in 0..MaxPillars}

InitArea ==
    /\ items \in AreaCollections
    /\ InitApp

NextArea ==
    \/ \E k \in 1..Len(items) : renderNetArea(k)
    \/ \E k \in 1..Len(items), j \in 1..Len(items) : renderIntersection(k, j)

SpecArea == InitArea /\ [][NextArea]_vars

\* ------------------------------------------------------------------------
\* handleSplitItem, applied to bounded booths
\* ------------------------------------------------------------------------
\* the parts the select of the panel offers (PropertiesPanel.tsx 1118-1121)
AllSplitParts == {2, 4, 6, 8}

\* the manual areas of the split booths: off, switched on with no area
\* entered (PropertiesPanel.tsx 1011), and what the panel's number field can
\* hold (PropertiesPanel.tsx 1025: parseFloat(e.target.value))
ManualAreas ==
    {<<FALSE, Undefined>>, <<TRUE, Undefined>>, <<TRUE, W(12)>>, <<TRUE, W(-8)>>,
     <<TRUE, Zero>>}

SplitBooths ==
    {[PlannerItem(100, BOOTH, W(10), W(20), W(s[1]), W(s[2]), r, FALSE)
        EXCEPT !.label = <<1>>, !.useManualArea = m[1], !.manualArea = m[2],
               !.color = "#fee2e2", !.fontSize = 14, !.fontColor = "#334155",
               !.notes = "corner"] :
        s \in {<<200, 200>>, <<5, 5>>, <<30, 60>>}, r \in {0, 45, 90, 180, 270},
        m \in ManualAreas}

\* the booth of the scenarios, as the only zone of the collection
ScenarioSplitBooth == [ScenarioBooth EXCEPT !.id = 100]

\* the booth is selected, as it is when the panel shows it
InitSplit ==
    /\ \E b \in SplitBooths \cup {ScenarioSplitBooth} : items = <<b>>
    /\ selectedIds = {100}
    /\ dragState = NoDrag
    /\ view = [x |-> Zero, y |-> Zero, scale |-> W(1)]
    /\ isDrawing = FALSE
    /\ drawingPoints = <<>>
    /\ isEditingBackground = FALSE
    /\ backgroundImage = FALSE
    /\ bgImagePosition = [x |-> Zero, y |-> Zero]
    /\ bgImageDimensions = <<>>
    /\ tasks = EmptyBag
    /\ rendered = NothingRendered
    /\ nextId = 1
    /\ lastOp = Op("init", NoId, "", 0, 0, 0)
    /\ nops = 0

\* handler runs explored from a booth: its split, the click that selects
\* one of the children, the split of that child
MaxSplits == 3

NextSplit ==
    /\ nops < MaxSplits
    /\ \/ \E id \in ItemIds, parts \in AllSplitParts, direction \in Directions :
             splitOffered(id) /\ handleSplitItem(id, parts, direction)
       \/ \E id \in ItemIds, p \in DownPts :
             handleMouseDownItem(id, MOVE, FALSE, FALSE, p[1], p[2])

SpecSplit == InitSplit /\ [][NextSplit]_vars

\* ------------------------------------------------------------------------
\* handleSplitItem, requested for rectangles and for a polygon
\* ------------------------------------------------------------------------
\* a zone drawn as a triangle (finishDrawing's result for three clicks)
PolygonBooth ==
    [PlannerItem(100, BOOTH, W(10), W(10), W(30), W(30), 0, FALSE)
        EXCEPT !.points = << [x |-> Zero, y |-> Zero], [x |-> W(1), y |-> Zero],
                             [x |-> W(1), y |-> W(1)] >>,
               !.label = <<1>>, !.useManualArea = TRUE, !.manualArea = Zero]

SplitRequestTargets == SplitBooths \cup {PolygonBooth}

\* the target is selected, as it is when the panel shows it
InitSplitRequest ==
    /\ \E b \in SplitRequestTargets : items = <<b>>
    /\ selectedIds = {100}
    /\ dragState = NoDrag
    /\ view = [x |-> Zero, y |-> Zero, scale |-> W(1)]
    /\ isDrawing = FALSE
    /\ drawingPoints = <<>>
    /\ isEditingBackground = FALSE
    /\ backgroundImage = FALSE
    /\ bgImagePosition = [x |-> Zero, y |-> Zero]
    /\ bgImageDimensions = <<>>
    /\ tasks = EmptyBag
    /\ rendered = NothingRendered
    /\ nextId = 1
    /\ lastOp = Op("init", NoId, "", 0, 0, 0)
    /\ nops = 0

\* the requests the panel sends: parts from its select, either direction
NextSplitRequest ==
    \E id \in ItemIds, parts \in AllSplitParts, direction \in Directions :
        /\ nops < MaxSplits
        /\ splitOffered(id)
        /\ handleSplitItem(id, parts, direction)

SpecSplitRequest == InitSplitRequest /\ [][NextSplitRequest]_vars

\* ------------------------------------------------------------------------
\* A resize drag on bounded zones: pointer-down on the handle, moves, up
\* ------------------------------------------------------------------------
\* rotations of the resized zone; sizes on and off the grid, at and below
\* the grid unit
ResizeBooths ==
    {PlannerItem(100, BOOTH, W(20), W(20), W(s[1]), W(s[2]), r, FALSE) :
        s \in {<<40, 20>>, <<12, 7>>, <<5, 5>>, <<3, 2>>}, r \in {0, 30, 90, 137}}

\* pointer positions of the drag; the pointer goes down at DownPts
ResizePts == {<<10, 10>>, <<17, 10>>, <<40, 40>>, <<-40, -30>>, <<10, -60>>}

InitResize ==
    /\ \E b \in ResizeBooths : items = <<b>>
    /\ InitApp

NextResize ==
    \/ \E id \in ItemIds, p \in DownPts :
          handleMouseDownItem(id, RESIZE, FALSE, FALSE, p[1], p[2])
    \/ \E p \in ResizePts : handleMouseMove(p[1], p[2])
    \/ handleMouseUp

SpecResize == InitResize /\ [][NextResize]_vars

\* ------------------------------------------------------------------------
\* Drawing mode with points already placed
\* ------------------------------------------------------------------------
\* the world points of the clicks of PointerPts under the initial view
DrawnPts == {[x |-> W(10), y |-> W(10)], [x |-> W(17), y |-> W(10)], [x |-> W(40), y |-> W(40)]}

\* the placed points: any clicks, repeated and collinear ones included
DrawnPaths == UNION {[1..n -> DrawnPts] : n \in 0..MaxDrawPoints}

\* a zone under the drawing: a pointer-down on it reaches the canvas
DrawnOverBooth == PlannerItem(1, BOOTH, W(100), W(100), W(200), W(200), 0, FALSE)

InitDraw ==
    /\ items \in {<<>>, <<DrawnOverBooth>>}
    /\ selectedIds = {}
    /\ dragState = NoDrag
    /\ view = [x |-> Zero, y |-> Zero, scale |-> W(1)]
    /\ isDrawing = TRUE
    /\ drawingPoints \in DrawnPaths
    /\ isEditingBackground = FALSE
    /\ backgroundImage = FALSE
    /\ bgImagePosition = [x |-> Zero, y |-> Zero]
    /\ bgImageDimensions = <<>>
    /\ tasks = EmptyBag
    /\ rendered = NothingRendered
    /\ nextId = Len(items) + 1
    /\ lastOp = Op("init", NoId, "", 0, 0, 0)
    /\ nops = 0

\* handler runs explored from a drawing
MaxDrawOps == 2

NextDraw ==
    /\ nops < MaxDrawOps
    /\ \/ \E p \in PointerPts : handleMouseDownCanvas(p[1], p[2])
       \/ \E id \in ItemIds, type \in {MOVE, RESIZE}, p \in PointerPts :
             handleMouseDownItem(id, type, FALSE, FALSE, p[1], p[2])
       \/ \E e \in KeyEvents : handleKeyDown(e[1], e[2], e[3])
       \/ handleDoubleClick
       \/ setIsDrawing
       \/ \E updates \in PanelUpdates : updateItem(updates)

SpecDraw == InitDraw /\ [][NextDraw]_vars

\* ------------------------------------------------------------------------
\* normalizePoints, applied to bounded point sequences
\* ------------------------------------------------------------------------
\* polygons of 4 to 10 vertices: a rectangle, an L, a star-like zigzag
LongPaths ==
    LET P(x, y) == [x |-> W(x), y |-> W(y)] IN
    { << P(0, 0), P(30, 0), P(30, 20), P(0, 20) >>,
      << P(0, 0), P(40, 0), P(40, 10), P(10, 10), P(10, 30), P(0, 30) >>,
      << P(-20, 5), P(0, 0), P(20, 5), P(10, 10), P(20, 25), P(0, 15), P(-20, 25), P(-10, 10) >>,
      << P(3, 7), P(50, 7), P(50, 61), P(40, 61), P(40, 20), P(30, 20), P(30, 61),
         P(20, 61), P(20, 20), P(3, 20) >> }

NormalizeInputs == DrawnPaths \cup LongPaths
                     \cup {[k \in 1..Len(ps) |-> [x |-> FSub(ps[k].y, W(33)), y |-> FAdd(ps[k].x, W(1))]] :
                             ps \in DrawnPaths \cup LongPaths}

InitNormalize ==
    /\ items = <<>>
    /\ selectedIds = {}
    /\ dragState = NoDrag
    /\ view = [x |-> Zero, y |-> Zero, scale |-> W(1)]
    /\ isDrawing = TRUE
    /\ drawingPoints \in NormalizeInputs
    /\ isEditingBackground = FALSE
    /\ backgroundImage = FALSE
    /\ bgImagePosition = [x |-> Zero, y |-> Zero]
    /\ bgImageDimensions = <<>>
    /\ tasks = EmptyBag
    /\ rendered = NothingRendered
    /\ nextId = 1
    /\ lastOp = Op("init", NoId, "", 0, 0, 0)
    /\ nops = 0

\* const normalized = normalizePoints(drawingPoints)
applyNormalizePoints ==
    /\ rendered.fn = "none"
    /\ rendered' = [fn |-> "normalize", a |-> NoId, b |-> NoId,
                    value |-> normalizePoints(drawingPoints)]
    /\ UNCHANGED <<items, selectedIds, dragState, view, isDrawing, drawingPoints,
                   isEditingBackground, backgroundImage, bgImagePosition,
                   bgImageDimensions, tasks, nextId, lastOp, nops>>

NextNormalize == applyNormalizePoints

SpecNormalize == InitNormalize /\ [][NextNormalize]_vars

\* ------------------------------------------------------------------------
\* The viewport: wheel zoom, pan drag and reset from a view earlier zooms
\* and pans have left
\* ------------------------------------------------------------------------
\* wheel steps in one direction that lead to the scales of the initial views
MaxZoomSteps == 25

\* the scales up to k wheel steps in one direction leave, from the initial scale
RECURSIVE scalesAfter(_, _)
scalesAfter(k, zoomIn) ==
    IF k = 0 THEN {W(1)}
    ELSE LET S == scalesAfter(k - 1, zoomIn) IN
         S \cup {clampScale(FMul(s, viewScaleChange(IF zoomIn THEN 1 ELSE -1))) : s \in S}

\* zooming at the screen origin keeps the pan; a pan drag then sets it
InitialViews ==
    {[x |-> W(pan[1]), y |-> W(pan[2]), scale |-> s] :
        pan \in {<<0, 0>>, <<-30, 25>>, <<41, 0>>},
        s \in scalesAfter(MaxZoomSteps, TRUE) \cup scalesAfter(MaxZoomSteps, FALSE)}

InitView ==
    /\ items = <<>>
    /\ selectedIds = {}
    /\ dragState = NoDrag
    /\ view \in InitialViews
    /\ isDrawing = FALSE
    /\ drawingPoints = <<>>
    /\ isEditingBackground = FALSE
    /\ backgroundImage = FALSE
    /\ bgImagePosition = [x |-> Zero, y |-> Zero]
    /\ bgImageDimensions = <<>>
    /\ tasks = EmptyBag
    /\ rendered = NothingRendered
    /\ nextId = 1
    /\ lastOp = Op("init", NoId, "", 0, 0, 0)
    /\ nops = 0

\* handler runs explored from a view
MaxViewOps == 2

\* where the wheel turns over the viewport: near its corner and far right
ViewWheelPts == WheelPts \cup {<<661, 10>>}

NextView ==
    /\ nops < MaxViewOps
    /\ \/ \E deltaY \in WheelDeltaYs, p \in ViewWheelPts : onWheel(deltaY, p[1], p[2])
       \/ \E type \in {BOOTH, PILLAR} : addItem(type)
       \/ resetView
       \/ \E p \in DownPts : handleMouseDownCanvas(p[1], p[2])
       \/ \E p \in PointerPts : handleMouseMove(p[1], p[2])
       \/ handleMouseUp

SpecView == InitView /\ [][NextView]_vars

\* ------------------------------------------------------------------------
\* Selections of locked and unlocked zones: clicks, drags and keys on an
\* imported project
\* ------------------------------------------------------------------------
\* the project file: a locked booth, a booth turned by 90 degrees, a pillar
\* turned by 30 degrees and a locked pillar
SelectionProject ==
    << [PlannerItem(301, BOOTH, W(0), W(0), W(40), W(20), 0, TRUE) EXCEPT !.label = <<1>>],
       [PlannerItem(302, BOOTH, W(50), W(0), W(30), W(10), 90, FALSE)
          EXCEPT !.label = <<2>>, !.color = "#fee2e2", !.notes = "corner"],
       [PlannerItem(303, PILLAR, W(0), W(40), W(20), W(20), 30, FALSE) EXCEPT !.fontSize = 12],
       [PlannerItem(304, PILLAR, W(60), W(40), W(20), W(20), 0, TRUE) EXCEPT !.fontSize = 12] >>

\* the state after the import into a fresh session
InitSelect ==
    /\ items = SelectionProject
    /\ InitApp

\* <<key, shiftKey, typing>>: every arrow with and without Shift, the two
\* delete keys, and keys typed into a field of the panel
SelectKeyEvents ==
    {<<k, sh, FALSE>> : k \in Arrows, sh \in BOOLEAN}
       \cup {<<"Delete", FALSE, FALSE>>, <<"Backspace", FALSE, FALSE>>,
             <<"Backspace", FALSE, TRUE>>, <<"ArrowLeft", FALSE, TRUE>>,
             <<"Escape", FALSE, FALSE>>}

\* handler runs explored from the imported project
MaxSelectOps == 4

NextSelect ==
    /\ nops < MaxSelectOps
    /\ \/ \E id \in ItemIds, type \in {MOVE, RESIZE}, shiftKey \in BOOLEAN, p \in DownPts :
             handleMouseDownItem(id, type, FALSE, shiftKey, p[1], p[2])
       \/ \E p \in PointerPts : handleMouseMove(p[1], p[2])
       \/ handleMouseUp
       \/ \E e \in SelectKeyEvents : handleKeyDown(e[1], e[2], e[3])
       \/ deleteItem
       \/ \E id \in ItemIds, parts \in SplitParts, direction \in Directions :
             splitOffered(id) /\ handleSplitItem(id, parts, direction)

SpecSelect == InitSelect /\ [][NextSelect]_vars

\* ------------------------------------------------------------------------
\* getBoundingBox, applied to bounded rectangles at bounded rotations
\* ------------------------------------------------------------------------
\* the panel's rotation field takes any number: rotations beyond a full
\* turn and negative ones are among the inputs
BoundsRotations == {0, 30, 45, 60, 90, 137, 180, 270, 315, 360, 450, -90}

BoundsSizes == {<<40, 20>>, <<200, 5>>, <<5, 5>>, <<30, 60>>, <<1, 1>>, <<200, 200>>, <<3, 2>>,
                <<12, 7>>}

BoundsRects ==
    {PlannerItem(1, BOOTH, W(20), W(20), W(s[1]), W(s[2]), r, FALSE) :
        s \in BoundsSizes, r \in BoundsRotations}

InitBounds ==
    /\ \E b \in BoundsRects : items = <<b>>
    /\ InitApp

renderBoundingBox(k) ==
    /\ rendered.fn = "none"
    /\ rendered' = [fn |-> "bbox", a |-> k, b |-> NoId, value |-> getBoundingBox(items[k])]
    /\ UNCHANGED <<items, selectedIds, dragState, view, isDrawing, drawingPoints,
                   isEditingBackground, backgroundImage, bgImagePosition,
                   bgImageDimensions, tasks, nextId, lastOp, nops>>

NextBounds == \E k \in 1..Len(items) : renderBoundingBox(k)

SpecBounds == InitBounds /\ [][NextBounds]_vars


\* ------------------------------------------------------------------------
\* Drag sessions of every kind, over an imported project with a background
\* ------------------------------------------------------------------------
\* the state after the import of the project file that has an image with its
\* dimensions and position, outside and inside background-edit mode
InitSession ==
    /\ items = Project1
    /\ selectedIds = {}
    /\ dragState = NoDrag
    /\ view = [x |-> Zero, y |-> Zero, scale |-> W(1)]
    /\ isDrawing = FALSE
    /\ drawingPoints = <<>>
    /\ isEditingBackground \in BOOLEAN
    /\ backgroundImage = TRUE
    /\ bgImagePosition = [x |-> W(5), y |-> W(6)]
    /\ bgImageDimensions = << [w |-> W(UploadW), h |-> W(UploadH)] >>
    /\ tasks = EmptyBag
    /\ rendered = NothingRendered
    /\ nextId = 1
    /\ lastOp = Op("init", NoId, "", 0, 0, 0)
    /\ nops = 0

NextSession ==
    \/ \E id \in ItemIds, type \in {MOVE, RESIZE}, p \in DownPts :
          handleMouseDownItem(id, type, FALSE, FALSE, p[1], p[2])
    \/ \E p \in PointerPts : handleMouseDownCanvas(p[1], p[2])
    \/ \E p \in PointerPts : handleMouseMove(p[1], p[2])
    \/ handleMouseUp
    \/ setIsEditingBackground
    \/ \E axis \in {"x", "y"}, value \in BgPositionValues : setBgImagePosition(axis, value)

SpecSession == InitSession /\ [][NextSession]_vars
\* ========================================================================
\* Claims
\* ========================================================================
\* the claims compute as a test of the program would: in doubles

\* ------------------------------------------------------------------------
\* C7: for every booth (rotated or not) and every collection of zones with
\* positive sizes, also when the pillars' summed overlaps exceed the booth's
\* area, 0 <= netUsableArea(booth, zones) <= booth.w * booth.h.
\* ------------------------------------------------------------------------
C7_NetAreaBounds ==
    rendered.fn = "net" =>
        /\ FLe(Zero, rendered.value)
        /\ FLe(rendered.value, FMul(items[rendered.a].w, items[rendered.a].h))

\* the net area of a rotated booth whose pillars overlap it by more than its area
C7_Witness ==
    /\ rendered.fn = "net"
    /\ items[rendered.a].rotation = 45
    /\ Len(items) = 3
    /\ FGt(SumIntersections(items[1], SubSeq(items, 2, 3), 1, Zero),
           FMul(items[1].w, items[1].h))
    /\ rendered.value = Zero

\* ------------------------------------------------------------------------
\* C8: for the booth (0, 0, 200, 200) at rotation 0 and the pillar
\* (150, 150, 40, 40): as claimed, intersectionArea = 2500 and
\* netUsableArea = 37500; as amended, 1600 (the 40 x 40 pillar lies wholly
\* inside the booth) and 40000 - 1600 = 38400.
\* ------------------------------------------------------------------------
IsScenario == items = <<ScenarioBooth, ScenarioPillar>>

C8_Original ==
    IsScenario =>
        /\ rendered.fn = "intersection" => rendered.value = W(2500)
        /\ rendered.fn = "net" => rendered.value = W(37500)

C8_Amended ==
    IsScenario =>
        /\ rendered.fn = "intersection" => rendered.value = W(1600)
        /\ rendered.fn = "net" => rendered.value = W(38400)

C8_Witness ==
    /\ IsScenario
    /\ rendered.fn = "net"
    /\ rendered.a = 1

\* ------------------------------------------------------------------------
\* Split steps, read off a step of the history
\* ------------------------------------------------------------------------
\* this step ran handleSplitItem and it passed the early returns
SplitAccepted == lastOp'.op = "split" /\ ~splitRejected(items, lastOp'.id)
SplitParent == FindItem(items, lastOp'.id)
\* the zones of the next state that the current one does not hold
SplitNewZones == SelectSeq(items', LAMBDA i : i.id \notin ItemIds)

\* its.reduce((sum, c) => sum + c.w * c.h, sum) from zone k on
RECURSIVE SumWH(_, _, _)
SumWH(its, k, sum) ==
    IF k > Len(its) THEN sum
    ELSE SumWH(its, k + 1, FAdd(sum, FMul(its[k].w, its[k].h)))

\* exactly n children replace the parent, every other zone stays
SplitReplacesParent ==
    /\ Len(SplitNewZones) = lastOp'.n
    /\ Cardinality({SplitNewZones[k].id : k \in 1..Len(SplitNewZones)}) = lastOp'.n
    /\ lastOp'.id \notin ItemIdsNext
    /\ Len(items') = Len(items) - 1 + lastOp'.n
    /\ \A k \in 1..Len(items) :
          items[k].id # lastOp'.id => \E j \in 1..Len(items') : items'[j] = items[k]

\* a whole number of world units
IsWhole(a) == a.e >= 0

\* |a - b| <= |b| * 2^-50: equal up to a few roundings
Close(a, b) == FLe(FAbs(FSub(a, b)), FMul(FAbs(b), Bin(0, <<1>>, -50)))

\* ------------------------------------------------------------------------
\* C9: a split into n parts replaces the parent by exactly n children.  As
\* claimed, the children's w*h sum to the parent's w*h exactly for n in
\* {2,4,6,8}; as amended, exactly for n in {2,4,8} when the parent's sides
\* are whole numbers, and otherwise up to the rounding of the quotient w/n
\* (h/n), of the products and of their sum.
\* ------------------------------------------------------------------------
C9_Original ==
    [][SplitAccepted =>
         /\ SplitReplacesParent
         /\ SumWH(SplitNewZones, 1, Zero) = FMul(SplitParent.w, SplitParent.h)]_vars

C9_Amended ==
    [][SplitAccepted =>
         /\ SplitReplacesParent
         /\ (lastOp'.n \in {2, 4, 8} /\ IsWhole(SplitParent.w) /\ IsWhole(SplitParent.h))
               => SumWH(SplitNewZones, 1, Zero) = FMul(SplitParent.w, SplitParent.h)
         /\ Close(SumWH(SplitNewZones, 1, Zero), FMul(SplitParent.w, SplitParent.h))]_vars

\* a 5 x 5 booth cut in six: the six areas sum to more than 25
C9_Witness ==
    /\ lastOp.op = "split"
    /\ lastOp.n = 6
    /\ Len(items) = 6
    /\ \A k \in 1..6 : items[k].label = <<1, k>>
    /\ FGt(SumWH(items, 1, Zero), W(25))
    /\ Close(SumWH(items, 1, Zero), W(25))

\* ------------------------------------------------------------------------
\* C10: each child of a split gets a new id, different from the parent's and
\* its siblings', and has locked = false.  As claimed, it inherits label,
\* colors, font size and notes unchanged and, when the parent has
\* useManualArea, carries the parent's manualArea divided by the parts; as
\* amended, it inherits colors, font size and notes (and kind, rotation,
\* points, useManualArea) unchanged, its label is the parent's label
\* followed by -<i+1>, and its manualArea is, when the parent has
\* useManualArea, the parent's manualArea divided by the parts where that
\* is a number other than 0 and 0 where it is 0 or not set (undefined when
\* the parent has no useManualArea).
\* ------------------------------------------------------------------------
ChildCore(c, parent) ==
    /\ c.color = parent.color
    /\ c.fontSize = parent.fontSize
    /\ c.fontColor = parent.fontColor
    /\ c.notes = parent.notes
    /\ c.id \notin ItemIds
    /\ c.locked = FALSE

C10_Original ==
    [][SplitAccepted =>
         /\ SplitReplacesParent
         /\ \A k \in 1..Len(SplitNewZones) :
               /\ ChildCore(SplitNewZones[k], SplitParent)
               /\ SplitNewZones[k].label = SplitParent.label
               /\ SplitParent.useManualArea =>
                     /\ SplitParent.manualArea # Undefined
                     /\ SplitNewZones[k].manualArea
                           = FDiv(SplitParent.manualArea, W(lastOp'.n))]_vars

C10_Amended ==
    [][SplitAccepted =>
         /\ SplitReplacesParent
         /\ \A k \in 1..Len(SplitNewZones) :
               /\ ChildCore(SplitNewZones[k], SplitParent)
               /\ SplitNewZones[k].label = SplitParent.label \o <<k>>
               /\ SplitNewZones[k].type = SplitParent.type
               /\ SplitNewZones[k].rotation = SplitParent.rotation
               /\ SplitNewZones[k].points = SplitParent.points
               /\ SplitNewZones[k].useManualArea = SplitParent.useManualArea
               /\ SplitNewZones[k].manualArea =
                     IF ~SplitParent.useManualArea THEN Undefined
                     ELSE IF SplitParent.manualArea \in {Undefined, Zero} THEN Zero
                     ELSE FDiv(SplitParent.manualArea, W(lastOp'.n))]_vars

\* six children of a booth with a manual area of -8: each carries -8/6
C10_Witness ==
    /\ lastOp.op = "split"
    /\ lastOp.n = 6
    /\ Len(items) = 6
    /\ \A k \in 1..6 :
          /\ items[k].useManualArea
          /\ items[k].manualArea = FDiv(W(-8), W(6))
          /\ FLt(items[k].manualArea, Zero)
          /\ items[k].label = <<1, k>>
          /\ items[k].notes = "corner"
          /\ ~items[k].locked

          /\ items[k].notes = "corner"
          /\ ~items[k].locked

\* ------------------------------------------------------------------------
\* Drag steps, read off a step of the history
\* ------------------------------------------------------------------------
SameGeometry(a, b) == a.x = b.x /\ a.y = b.y /\ a.w = b.w /\ a.h = b.h
ItemSession == dragState.isDragging /\ dragState.type \in {"ITEM_MOVE", "ITEM_RESIZE"}
MoveEvent == lastOp'.op = "mouseMove"
EscapeKey == lastOp'.op = "keyDown" /\ lastOp'.arg = "Escape"

\* ------------------------------------------------------------------------
\* C1: a zone whose locked flag is true is never geometrically mutated or
\* removed: a move drag, a resize drag, an arrow-key nudge, a delete and a
\* split each leave its x, y, w, h unchanged and leave it in the collection.
\* ------------------------------------------------------------------------
C1_LockedZonesKept ==
    [][lastOp'.op \in {"mouseMove", "keyDown", "deleteItem", "split"} =>
         \A k \in 1..Len(items) :
            items[k].locked =>
               \E j \in 1..Len(items') :
                  items'[j].id = items[k].id /\ SameGeometry(items'[j], items[k])]_vars

\* ------------------------------------------------------------------------
\* C2: pressing Escape while a MOVE or RESIZE drag session is active ends
\* the session (no drag session is active afterwards) and restores every
\* zone of the snapshot to its pointer-down x, y, w, h.
\* ------------------------------------------------------------------------
C2_EscapeCancelsDrag ==
    [][(EscapeKey /\ ItemSession) =>
         /\ ~dragState'.isDragging
         /\ dragState'.type = "null"
         /\ \A k \in 1..Len(items') :
               items'[k].id \in DOMAIN dragState.initialItemsState =>
                  SameGeometry(items'[k], dragState.initialItemsState[items'[k].id])]_vars

\* ------------------------------------------------------------------------
\* C3: Escape in drawing mode.  As claimed, with at least one placed point it
\* removes exactly the last point and stays in drawing mode; as amended, it
\* removes all placed points and stays in drawing mode.  With no placed
\* point it exits drawing mode (claimed and amended).
\* ------------------------------------------------------------------------
C3_Original ==
    [][(EscapeKey /\ isDrawing) =>
         IF Len(drawingPoints) > 0
         THEN /\ drawingPoints' = SubSeq(drawingPoints, 1, Len(drawingPoints) - 1)
              /\ isDrawing'
         ELSE ~isDrawing']_vars

C3_Amended ==
    [][(EscapeKey /\ isDrawing) =>
         IF Len(drawingPoints) > 0
         THEN /\ drawingPoints' = <<>>
              /\ isDrawing'
         ELSE /\ ~isDrawing'
              /\ drawingPoints' = <<>>]_vars

\* Escape has just emptied the points of a drawing that goes on
C3_Witness ==
    /\ lastOp.op = "keyDown"
    /\ lastOp.arg = "Escape"
    /\ isDrawing
    /\ drawingPoints = <<>>

\* ------------------------------------------------------------------------
\* C4: during a MOVE or RESIZE session the geometry a pointer-move writes
\* depends only on the pointer-down snapshot and the event's position (at
\* the current zoom), never on the geometry an earlier move left: the last
\* event wins and a repeated event changes nothing.
\* ------------------------------------------------------------------------
\* what a pointer-move of an item session writes, from the snapshot alone
WritesFromSnapshot(snap, worldDx, worldDy) ==
    /\ Len(items') = Len(items)
    /\ \A k \in 1..Len(items) :
          (~items[k].locked /\ items[k].id \in DOMAIN snap) =>
             /\ dragState.type = "ITEM_MOVE" =>
                   /\ items'[k].x = FAdd(snap[items[k].id].x, snapToGrid(worldDx))
                   /\ items'[k].y = FAdd(snap[items[k].id].y, snapToGrid(worldDy))
                   /\ items'[k].w = items[k].w
                   /\ items'[k].h = items[k].h
             /\ (dragState.type = "ITEM_RESIZE"
                   /\ items[k].id = dragState.activeResizeId) =>
                   SameGeometry(items'[k],
                                resizedGeometry(snap[items[k].id], worldDx, worldDy))

C4_MoveFromSnapshot ==
    [][(MoveEvent /\ ItemSession) =>
         /\ WritesFromSnapshot(
                dragState.initialItemsState,
                toWorldDelta(FSub(W(lastOp'.x), dragState.startX), view.scale),
                toWorldDelta(FSub(W(lastOp'.y), dragState.startY), view.scale))
         /\ (lastOp.op = "mouseMove" /\ lastOp.x = lastOp'.x /\ lastOp.y = lastOp'.y)
               => items' = items]_vars

\* a fourth step that moves the pointer to (17, 10): the zone sits one grid
\* unit from its snapshot whatever the third step wrote
C4_Witness ==
    /\ nops = 4
    /\ lastOp.op = "mouseMove"
    /\ lastOp.x = 17
    /\ dragState.isDragging
    /\ dragState.type = "ITEM_MOVE"
    /\ \E k \in 1..Len(items) :
          /\ items[k].id \in DOMAIN dragState.initialItemsState
          /\ items[k].x = FAdd(dragState.initialItemsState[items[k].id].x, W(GRID_SIZE))

\* ------------------------------------------------------------------------
\* C5: a pointer-up ends the active drag session whatever its kind:
\* afterwards no session is active (kind null, snapshot empty, no resize
\* target), and while no session is active a pointer-move changes no zone,
\* no viewport pan and no background position; only a pointer-down starts
\* a session.
\* ------------------------------------------------------------------------
C5_PointerUpEndsSession ==
    [][/\ (lastOp'.op = "mouseUp" /\ dragState.isDragging) =>
            /\ ~dragState'.isDragging
            /\ dragState'.type = "null"
            /\ dragState'.initialItemsState = <<>>
            /\ dragState'.activeResizeId = NoId
       /\ (MoveEvent /\ ~dragState.isDragging) =>
            /\ items' = items
            /\ view' = view
            /\ bgImagePosition' = bgImagePosition
       /\ (~dragState.isDragging /\ dragState'.isDragging) =>
            lastOp'.op \in {"mouseDownItem", "mouseDownCanvas"}]_vars

\* a session that moved the background has been ended by the pointer-up
C5_Witness ==
    /\ lastOp.op = "mouseUp"
    /\ ~dragState.isDragging
    /\ dragState.type = "null"
    /\ dragState.initialBgPos = << [x |-> W(5), y |-> W(6)] >>
    /\ bgImagePosition = [x |-> W(12), y |-> W(6)]

\* ------------------------------------------------------------------------
\* C6: in every reachable state every zone has w > 0 and h > 0, the
\* property panel's updates of w and h included.
\* ------------------------------------------------------------------------
C6_PositiveSizes ==
    \A k \in 1..Len(items) : FGt(items[k].w, Zero) /\ FGt(items[k].h, Zero)

\* ------------------------------------------------------------------------
\* C11: a split request is rejected before any mutation, leaving the zone
\* collection and the selection unchanged, whenever the target zone is in
\* polygon mode (has points) or the requested number of parts is below 2.
\* ------------------------------------------------------------------------
C11_SplitRejected ==
    [][(/\ lastOp'.op = "split"
        /\ HasItem(items, lastOp'.id)
        /\ \/ Len(FindItem(items, lastOp'.id).points) > 0
           \/ lastOp'.n < 2)
         => (items' = items /\ selectedIds' = selectedIds)]_vars

\* the panel has requested the split of the triangle in 6 parts: the
\* triangle is still the only zone and still selected
C11_Witness ==
    /\ lastOp.op = "split"
    /\ lastOp.id = 100
    /\ lastOp.n = 6
    /\ items = <<PolygonBooth>>
    /\ selectedIds = {100}

\* ------------------------------------------------------------------------
\* C12: no size produced by a split is below one grid unit: for every
\* rectangular booth and every parts count offered (2, 4, 6, 8), each
\* child's w and h are at least GRID_SIZE.
\* ------------------------------------------------------------------------
C12_SplitMinSize ==
    [][(SplitAccepted /\ lastOp'.n \in AllSplitParts) =>
         \A k \in 1..Len(SplitNewZones) :
            /\ FGe(SplitNewZones[k].w, W(GRID_SIZE))
            /\ FGe(SplitNewZones[k].h, W(GRID_SIZE))]_vars

\* ------------------------------------------------------------------------
\* Resize sessions, read off a state
\* ------------------------------------------------------------------------
ResizeSession == dragState.isDragging /\ dragState.type = "ITEM_RESIZE"

\* the point at the local offset (lx, ly) from the centre (cx, cy) of a
\* rectangle drawn rotated about its centre
CornerAt(cx, cy, lx, ly, rotation) ==
    [x |-> FAdd(cx, turnedX(vector(lx, ly), rotation)),
     y |-> FAdd(cy, turnedY(vector(lx, ly), rotation))]

\* the world position of the corner (a, b) of a rectangle drawn rotated
\* about its centre; a, b in {-1, 1} pick left/right and top/bottom
CornerWorld(g, rotation, a, b) ==
    CornerAt(FAdd(g.x, FDiv(g.w, W(2))), FAdd(g.y, FDiv(g.h, W(2))),
             FMul(W(a), FDiv(g.w, W(2))), FMul(W(b), FDiv(g.h, W(2))), rotation)

\* two points less than one grid unit apart in each coordinate
WithinGridUnit(p, q) ==
    /\ FLt(FAbs(FSub(p.x, q.x)), W(GRID_SIZE))
    /\ FLt(FAbs(FSub(p.y, q.y)), W(GRID_SIZE))

\* the corners opposite the handle: the one opposite its local direction,
\* and both corners of the opposite edge where the handle has no direction
\* along an axis
AnchorCorners(snap) ==
    {c \in {-1, 1} \X {-1, 1} :
        /\ resizeSignW(snap) # 0 => c[1] = -resizeSignW(snap)
        /\ resizeSignH(snap) # 0 => c[2] = -resizeSignH(snap)}

\* ------------------------------------------------------------------------
\* C13: at every point of a RESIZE session, whatever pointer-moves it has
\* seen, the world position of the anchor corner of the resized rectangle
\* (the corner opposite the handle) is less than one grid unit from its
\* pointer-down position in each coordinate, and the rotation is the
\* snapshot's; for rotations 0, 30, 90, 137, sizes clamped to the minimum and
\* snapshot sizes off the grid.
\* ------------------------------------------------------------------------
AnchorKept(item, snap) ==
    /\ item.rotation = snap.rotation
    /\ \A c \in AnchorCorners(snap) :
          WithinGridUnit(CornerWorld(item, snap.rotation, c[1], c[2]),
                         CornerWorld(snap, snap.rotation, c[1], c[2]))

C13_AnchorCornerFixed ==
    ResizeSession =>
       \A k \in 1..Len(items) :
          (items[k].id = dragState.activeResizeId
             /\ items[k].id \in DOMAIN dragState.initialItemsState) =>
             AnchorKept(items[k], dragState.initialItemsState[items[k].id])

\* a zone rotated by 137 degrees whose width was off the grid has been
\* resized, its height clamped to the grid unit
C13_Witness ==
    /\ ResizeSession
    /\ lastOp.op = "mouseMove"
    /\ \E k \in 1..Len(items) :
          /\ items[k].id = dragState.activeResizeId
          /\ items[k].rotation = 137
          /\ dragState.initialItemsState[items[k].id].w = W(12)
          /\ items[k].w # W(12)
          /\ items[k].h = W(GRID_SIZE)
          /\ FGt(dragState.initialItemsState[items[k].id].h, W(GRID_SIZE))

\* ------------------------------------------------------------------------
\* C14: after every pointer-move of a RESIZE session on an unlocked zone the
\* zone's w and h are each a multiple of the grid unit and at least one grid
\* unit, for every drag delta, those whose raw new width or height would be
\* zero or negative included.
\* ------------------------------------------------------------------------
\* a whole multiple of the grid unit
OnGrid(a) == IsZero(a) \/ (a.e >= 0 /\ BModSmall(a.m, GRID_SIZE) = 0)

C14_ResizeSnapsAndClamps ==
    [][(MoveEvent /\ ResizeSession) =>
         \A k \in 1..Len(items') :
            (items'[k].id = dragState.activeResizeId /\ ~items'[k].locked) =>
               /\ OnGrid(items'[k].w)
               /\ OnGrid(items'[k].h)
               /\ FGe(items'[k].w, W(GRID_SIZE))
               /\ FGe(items'[k].h, W(GRID_SIZE))]_vars

\* the drag of an unrotated snapshot whose raw new height is negative
RawHeightNegative(item, snap, worldDy) ==
    /\ snap.rotation = 0
    /\ FLt(FAdd(snap.h, worldDy), Zero)
    /\ ~OnGrid(snap.w)
    /\ item.h = W(GRID_SIZE)
    /\ OnGrid(item.w)

\* a drag whose raw new height is negative (the pointer went up by more than
\* the height) left the height at the grid unit and put the width on the grid
C14_Witness ==
    /\ ResizeSession
    /\ lastOp.op = "mouseMove"
    /\ \E k \in 1..Len(items) :
          /\ items[k].id = dragState.activeResizeId
          /\ RawHeightNegative(items[k], dragState.initialItemsState[items[k].id],
                               toWorldDelta(FSub(W(lastOp.y), dragState.startY), view.scale))

\* ------------------------------------------------------------------------
\* Drawing steps, read off a step of the history
\* ------------------------------------------------------------------------
\* this step's pointer-down reaches the canvas: a pointer-down on the canvas,
\* or one on a zone in drawing or background-edit mode
CanvasPointerDown ==
    \/ lastOp'.op = "mouseDownCanvas"
    \/ lastOp'.op = "mouseDownItem" /\ (isEditingBackground \/ isDrawing)

\* this step's click closes the loop (lines 531-541): drawing, at least three
\* points placed, the click within 10 screen pixels of the first
CloseLoopClick ==
    /\ CanvasPointerDown
    /\ ~(isEditingBackground /\ backgroundImage)
    /\ Len(drawingPoints) > 2
    /\ closesLoop(drawingPoints[1], toWorld(W(lastOp'.x), view.x, view.scale),
                  toWorld(W(lastOp'.y), view.y, view.scale), view.scale)

\* a close-loop click, the Enter key or a double-click while drawing
FinishEvent ==
    /\ isDrawing
    /\ \/ CloseLoopClick
       \/ lastOp'.op = "keyDown" /\ lastOp'.arg = "Enter"
       \/ lastOp'.op = "doubleClick"

IsPolygon(item) == Len(item.points) > 0
PolygonWellFormed(item) ==
    /\ Len(item.points) >= 3
    /\ \A k \in 1..Len(item.points) :
          /\ FGe(item.points[k].x, Zero) /\ FLe(item.points[k].x, W(1))
          /\ FGe(item.points[k].y, Zero) /\ FLe(item.points[k].y, W(1))

\* ------------------------------------------------------------------------
\* C15: from drawing mode, each of a close-loop click, the Enter key and a
\* double-click ends drawing.  As claimed, whatever number of points had been
\* placed: afterwards drawing mode is off and no placed point is retained.
\* As amended: the placed points are always discarded, but drawing mode is
\* left (and a zone created) only with three or more points placed; with
\* fewer, Enter and double-click stay in drawing mode and create nothing.
\* ------------------------------------------------------------------------
C15_Original ==
    [][FinishEvent => (~isDrawing' /\ drawingPoints' = <<>>)]_vars

C15_Amended ==
    [][FinishEvent =>
         /\ drawingPoints' = <<>>
         /\ IF Len(drawingPoints) >= 3
            THEN /\ ~isDrawing'
                 /\ Len(items') = Len(items) + 1
            ELSE /\ isDrawing'
                 /\ items' = items
                 /\ ~CloseLoopClick]_vars

\* a close-loop click has ended a drawing of three points with a zone
C15_Witness ==
    /\ lastOp.op = "mouseDownCanvas"
    /\ nops = 1
    /\ ~isDrawing
    /\ drawingPoints = <<>>
    /\ Len(items) = 1
    /\ Len(items[1].points) = 3

\* ------------------------------------------------------------------------
\* C16: in every state every polygon-mode zone has at least 3 points, each
\* coordinate in [0,1]; finishing a drawing with fewer than 3 placed points
\* creates no zone, and a zone created by finishing has w >= 1 and h >= 1.
\* ------------------------------------------------------------------------
C16_PolygonsWellFormed ==
    [][/\ \A k \in 1..Len(items') : IsPolygon(items'[k]) => PolygonWellFormed(items'[k])
       /\ (FinishEvent /\ Len(drawingPoints) < 3) => items' = items
       /\ \A k \in 1..Len(items') :
             (FinishEvent /\ items'[k].id \notin ItemIds) =>
                /\ IsPolygon(items'[k])
                /\ FGe(items'[k].w, W(1))
                /\ FGe(items'[k].h, W(1))]_vars

\* a zone finished from three collinear points: its height is floored at 1
\* and a point sits on the far side of the box
C16_Witness ==
    /\ lastOp.op \in {"keyDown", "doubleClick"}
    /\ \E k \in 1..Len(items) :
          /\ Len(items[k].points) = 3
          /\ items[k].h = W(1)
          /\ FGt(items[k].w, W(1))
          /\ \E j \in 1..3 : items[k].points[j].x = W(1)

\* ------------------------------------------------------------------------
\* normalizePoints applied: the input is drawingPoints, the result rendered.value
\* ------------------------------------------------------------------------
Normalized == rendered.fn = "normalize"
SetMin(S) == CHOOSE v \in S : \A u \in S : FLe(v, u)
SetMax(S) == CHOOSE v \in S : \A u \in S : FGe(v, u)
InputXs == {drawingPoints[k].x : k \in 1..Len(drawingPoints)}
InputYs == {drawingPoints[k].y : k \in 1..Len(drawingPoints)}
\* px * w + x
Denormalize(p, size, origin) == FAdd(FMul(p, size), origin)

\* 2^-50: four units in the last place of a number between 1 and 2
Rounding == Bin(0, <<1>>, -50)

\* a and b differ by no more than the rounding of numbers as large as size
WithinRounding(a, b, size) == FLe(FAbs(FSub(a, b)), FMul(size, Rounding))

\* the point p of the result n de-normalizes to the input point q
Reconstructs(n, p, q) ==
    /\ WithinRounding(Denormalize(p.x, n.w, n.x), q.x, FAdd(n.w, FAbs(q.x)))
    /\ WithinRounding(Denormalize(p.y, n.h, n.y), q.y, FAdd(n.h, FAbs(q.y)))

\* the inputs of the round trip: 3 to 10 vertices in a box at least 1 x 1
RoundTripInput ==
    /\ Normalized
    /\ Len(drawingPoints) >= 3
    /\ Len(drawingPoints) <= 10
    /\ FGe(FSub(SetMax(InputXs), SetMin(InputXs)), W(1))
    /\ FGe(FSub(SetMax(InputYs), SetMin(InputYs)), W(1))

\* ------------------------------------------------------------------------
\* C17: for every point sequence of 3 to 10 vertices, convex or not, whose
\* bounding box is at least 1 wide and 1 high, de-normalizing the output of
\* normalizePoints (px*w + x, py*h + y) reconstructs every original point,
\* in the original order: every coordinate comes back within the rounding
\* of the division, the product and the sum in binary64 (a coordinate 27 up
\* a box 47 high from 4 comes back as 31.000000000000004).
\* ------------------------------------------------------------------------
C17_NormalizeRoundTrip ==
    RoundTripInput =>
       /\ Len(rendered.value[1].points) = Len(drawingPoints)
       /\ \A k \in 1..Len(drawingPoints) :
             Reconstructs(rendered.value[1], rendered.value[1].points[k], drawingPoints[k])

\* the non-convex polygon of 10 vertices, wider than high, has been normalized
C17_Witness ==
    /\ Normalized
    /\ Len(drawingPoints) = 10
    /\ rendered.value[1].w # rendered.value[1].h
    /\ \E k \in 1..10 : rendered.value[1].points[k].x \notin {Zero, W(1)}

\* ------------------------------------------------------------------------
\* C18: normalizePoints returns null for an empty input and a result for
\* every other; the result has x = minX, y = minY, w = max(1, maxX - minX),
\* h = max(1, maxY - minY), so collinear or single-point inputs yield sizes
\* of exactly 1 rather than 0.
\* ------------------------------------------------------------------------
C18_NormalizeBox ==
    Normalized =>
       IF Len(drawingPoints) = 0
       THEN rendered.value = <<>>
       ELSE /\ Len(rendered.value) = 1
            /\ rendered.value[1].x = SetMin(InputXs)
            /\ rendered.value[1].y = SetMin(InputYs)
            /\ rendered.value[1].w = FMax(W(1), FSub(SetMax(InputXs), SetMin(InputXs)))
            /\ rendered.value[1].h = FMax(W(1), FSub(SetMax(InputYs), SetMin(InputYs)))
            /\ (SetMax(InputXs) = SetMin(InputXs)) => rendered.value[1].w = W(1)
            /\ (SetMax(InputYs) = SetMin(InputYs)) => rendered.value[1].h = W(1)

\* a horizontal segment of distinct points has been normalized to height 1
C18_Witness ==
    /\ Normalized
    /\ Len(drawingPoints) >= 2
    /\ Cardinality(InputYs) = 1
    /\ Cardinality(InputXs) > 1
    /\ rendered.value[1].h = W(1)
    /\ FGt(rendered.value[1].w, W(1))

\* ------------------------------------------------------------------------
\* The view zoom, read off a step of the history
\* ------------------------------------------------------------------------
ViewZoomStep ==
    /\ lastOp'.op = "wheel"
    /\ ~(isEditingBackground /\ backgroundImage /\ bgImageDimensions # <<>>)

\* the pan of the step is anchor - world * newScale, as line 389 computes it
PanFromAnchor(anchor, world, newPan, newScale) ==
    newPan = FSub(anchor, FMul(world, newScale))

\* the world point under the anchor was world and is now within the rounding
\* of it, measured on the screen of the new view
AnchorKeeps(anchor, world, newPan, newScale) ==
    FLe(FMul(FAbs(FSub(toWorld(anchor, newPan, newScale), world)), newScale),
        FMul(FAdd(FAbs(anchor), FAbs(newPan)), Rounding))

\* ------------------------------------------------------------------------
\* C19: a zoom step at a screen anchor leaves the world point under the
\* anchor unchanged: the new pan is anchor - toWorld(anchor) * newScale with
\* the new scale as clamped.  As claimed, toWorld(anchor) is the same number
\* before and after the step; as amended, it is the same up to the rounding
\* of the product, the difference and the quotient in binary64 (of numbers
\* as large as the anchor and the pan, measured on the screen), also on a
\* wheel event whose deltaY is 0, which keeps the scale and writes the pan
\* anew.
\* ------------------------------------------------------------------------
C19_Original ==
    [][ViewZoomStep =>
         /\ PanFromAnchor(W(lastOp'.x), toWorld(W(lastOp'.x), view.x, view.scale),
                          view'.x, view'.scale)
         /\ PanFromAnchor(W(lastOp'.y), toWorld(W(lastOp'.y), view.y, view.scale),
                          view'.y, view'.scale)
         /\ toWorld(W(lastOp'.x), view'.x, view'.scale)
               = toWorld(W(lastOp'.x), view.x, view.scale)
         /\ toWorld(W(lastOp'.y), view'.y, view'.scale)
               = toWorld(W(lastOp'.y), view.y, view.scale)]_vars

C19_Amended ==
    [][ViewZoomStep =>
         /\ PanFromAnchor(W(lastOp'.x), toWorld(W(lastOp'.x), view.x, view.scale),
                          view'.x, view'.scale)
         /\ PanFromAnchor(W(lastOp'.y), toWorld(W(lastOp'.y), view.y, view.scale),
                          view'.y, view'.scale)
         /\ AnchorKeeps(W(lastOp'.x), toWorld(W(lastOp'.x), view.x, view.scale),
                        view'.x, view'.scale)
         /\ AnchorKeeps(W(lastOp'.y), toWorld(W(lastOp'.y), view.y, view.scale),
                        view'.y, view'.scale)]_vars

\* a zoom-in at (40, 40) whose new scale was clamped at the maximum, from a
\* panned view
C19_Witness ==
    /\ nops = 1
    /\ lastOp.op = "wheel"
    /\ lastOp.arg = "in"
    /\ lastOp.x = 40
    /\ view.scale = MaxScale
    /\ view.x # Zero
    /\ view.x # W(-30)

\* ------------------------------------------------------------------------
\* C20: in every state the viewport scale lies in [0.1, 5], after any
\* sequence of wheel-zoom (in or out), pan-drag and reset-view events.
\* ------------------------------------------------------------------------
C20_ScaleClamped ==
    FGe(view.scale, MinScale) /\ FLe(view.scale, MaxScale)

\* two zoom-outs at the bottom of the range left the scale at the minimum
C20_Witness ==
    /\ nops = 2
    /\ lastOp.op = "wheel"
    /\ lastOp.arg = "out"
    /\ view.scale = MinScale

\* ------------------------------------------------------------------------
\* Key and delete steps, read off a step of the history
\* ------------------------------------------------------------------------
\* a key that reaches the canvas (not typed into a field of the panel)
CanvasKey(keys) ==
    lastOp'.op = "keyDown" /\ lastOp'.arg \in keys /\ lastOp'.x = 0

Selected(k) == items[k].id \in selectedIds

\* ------------------------------------------------------------------------
\* C21: Delete/Backspace (on the canvas) removes from the collection exactly
\* the selected zones that are unlocked; every locked selected zone and
\* every unselected zone remains, unchanged and in order, and afterwards the
\* selection is exactly the set of locked zones that were selected.
\* ------------------------------------------------------------------------
C21_DeleteRemovesUnlockedSelected ==
    [][CanvasKey({"Delete", "Backspace"}) =>
         LET kept == {k \in 1..Len(items) : ~Selected(k) \/ items[k].locked}
         IN /\ Len(items') = Cardinality(kept)
            /\ \A k \in kept : \E j \in 1..Len(items') : items'[j] = items[k]
            /\ \A j \in 1..Len(items') : \E k \in kept : items'[j] = items[k]
            /\ \A i, j \in 1..Len(items') :
                  i < j => \E a, b \in kept : a < b /\ items'[i] = items[a]
                                                     /\ items'[j] = items[b]
            /\ selectedIds' = {items[k].id :
                                 k \in {n \in 1..Len(items) : Selected(n) /\ items[n].locked}}]_vars

\* Delete with the locked booth, the turned booth and the locked pillar
\* selected: the turned booth is gone and the two locked zones stay selected
C21_Witness ==
    /\ lastOp.op = "keyDown"
    /\ lastOp.arg = "Delete"
    /\ lastOp.x = 0
    /\ Len(items) = 3
    /\ ~HasItem(items, 302)
    /\ selectedIds = {301, 304}

\* ------------------------------------------------------------------------
\* C22: an arrow key (on the canvas) moves every selected unlocked zone by
\* exactly 1 world unit in the key's direction (10 with Shift held) and
\* changes nothing else: w, h, rotation and every other field of the moved
\* zones, all locked zones, all unselected zones, the selection, the drag
\* session and the viewport are unchanged; with an empty selection no zone
\* changes.
\* ------------------------------------------------------------------------
\* the step of an arrow key along an axis: back, forth or none
NudgeAlong(step, back, forth) ==
    IF lastOp'.arg = back THEN FNeg(step) ELSE IF lastOp'.arg = forth THEN step ELSE Zero

\* every selected unlocked zone is moved by (dx, dy), every other zone kept
NudgedBy(dx, dy) ==
    /\ Len(items') = Len(items)
    /\ \A k \in 1..Len(items) :
          IF Selected(k) /\ ~items[k].locked
          THEN items'[k] = [items[k] EXCEPT !.x = FAdd(items[k].x, dx),
                                            !.y = FAdd(items[k].y, dy)]
          ELSE items'[k] = items[k]

C22_ArrowNudges ==
    [][CanvasKey(Arrows) =>
         /\ NudgedBy(NudgeAlong(IF lastOp'.n = 1 THEN W(10) ELSE W(1),
                                "ArrowLeft", "ArrowRight"),
                     NudgeAlong(IF lastOp'.n = 1 THEN W(10) ELSE W(1),
                                "ArrowUp", "ArrowDown"))
         /\ selectedIds = {} => items' = items
         /\ UNCHANGED <<selectedIds, dragState, view, isDrawing, drawingPoints>>]_vars

\* Shift+ArrowLeft with the locked booth and the turned booth selected: the
\* turned booth is 10 units to the left, the locked booth where it was
C22_Witness ==
    /\ lastOp.op = "keyDown"
    /\ lastOp.arg = "ArrowLeft"
    /\ lastOp.n = 1
    /\ lastOp.x = 0
    /\ selectedIds = {301, 302}
    /\ FindItem(items, 302).x = W(40)
    /\ FindItem(items, 302).y = W(0)
    /\ FindItem(items, 301).x = W(0)

\* ------------------------------------------------------------------------
\* C23: a split cuts along the zone's local width axis exactly when (the
\* rotation is an odd multiple of 90 degrees and the direction is VERTICAL)
\* or (it is not and the direction is HORIZONTAL); the children then have
\* size (w/parts, h), and otherwise (w, h/parts).
\* ------------------------------------------------------------------------
OddMultipleOf90(rotation) == \E m \in -4..4 : rotation = 90 * (2 * m + 1)

\* the split of this step cuts the parent's local width
AlongWidth ==
    \/ OddMultipleOf90(SplitParent.rotation) /\ lastOp'.arg = VERTICAL
    \/ ~OddMultipleOf90(SplitParent.rotation) /\ lastOp'.arg = HORIZONTAL

C23_SplitAxis ==
    [][SplitAccepted =>
         \A k \in 1..Len(SplitNewZones) :
            IF AlongWidth
            THEN /\ SplitNewZones[k].w = FDiv(SplitParent.w, W(lastOp'.n))
                 /\ SplitNewZones[k].h = SplitParent.h
            ELSE /\ SplitNewZones[k].w = SplitParent.w
                 /\ SplitNewZones[k].h = FDiv(SplitParent.h, W(lastOp'.n))]_vars

\* the 30 x 60 booth turned by 270 degrees, split VERTICAL in 2: the local
\* width is cut, the children are 15 x 60
C23_Witness ==
    /\ nops = 1
    /\ lastOp.op = "split"
    /\ lastOp.arg = VERTICAL
    /\ lastOp.n = 2
    /\ Len(items) = 2
    /\ \A k \in 1..Len(items) :
          items[k].rotation = 270 /\ items[k].w = W(15) /\ items[k].h = W(60)

\* ------------------------------------------------------------------------
\* Centres of the children of a split
\* ------------------------------------------------------------------------
CentreX(g) == FAdd(g.x, FDiv(g.w, W(2)))
CentreY(g) == FAdd(g.y, FDiv(g.h, W(2)))

RECURSIVE SumCx(_, _, _)
SumCx(its, k, sum) ==
    IF k > Len(its) THEN sum ELSE SumCx(its, k + 1, FAdd(sum, CentreX(its[k])))

RECURSIVE SumCy(_, _, _)
SumCy(its, k, sum) ==
    IF k > Len(its) THEN sum ELSE SumCy(its, k + 1, FAdd(sum, CentreY(its[k])))

\* the child c is centred at the parent's centre plus the local offset
\* (offX, offY) turned by the parent's rotation
CentredAt(c, parent, offX, offY) ==
    /\ c.x = FSub(FAdd(CentreX(parent), turnedX(vector(offX, offY), parent.rotation)),
                  FDiv(c.w, W(2)))
    /\ c.y = FSub(FAdd(CentreY(parent), turnedY(vector(offX, offY), parent.rotation)),
                  FDiv(c.h, W(2)))

\* (i * childSize + childSize / 2) - parentSize / 2
LocalOffset(i, childSize, parentSize) ==
    FSub(FAdd(FMul(W(i), childSize), FDiv(childSize, W(2))), FDiv(parentSize, W(2)))

\* child i sits at its offset along the split axis
ChildPlaced(c, parent, i, n, alongWidth) ==
    CentredAt(c, parent,
              IF alongWidth THEN LocalOffset(i, FDiv(parent.w, W(n)), parent.w) ELSE Zero,
              IF alongWidth THEN Zero ELSE LocalOffset(i, FDiv(parent.h, W(n)), parent.h))

\* the size the coordinates of a split are rounded at
SplitExtent(parent) ==
    FAdd(FAdd(FAbs(CentreX(parent)), FAbs(CentreY(parent))), FAdd(parent.w, parent.h))

\* ------------------------------------------------------------------------
\* C24: child i (0-indexed) of a split has its centre at the parent's centre
\* plus the local offset ((i*childSize + childSize/2) - parentSize/2 along
\* the split axis, 0 on the other axis) rotated by the parent's rotation,
\* and its top-left at that centre minus half the child size; the children's
\* centres average to the parent's centre (within the rounding of the
\* divisions, products and sums in binary64); the booth (0,0,200,200) at
\* rotation 0 split HORIZONTAL into 2 yields (0,0,100,200) and
\* (100,0,100,200).
\* ------------------------------------------------------------------------
C24_SplitChildCentres ==
    [][SplitAccepted =>
         /\ \A k \in 1..Len(SplitNewZones) :
               ChildPlaced(SplitNewZones[k], SplitParent, k - 1, lastOp'.n, AlongWidth)
         /\ WithinRounding(FDiv(SumCx(SplitNewZones, 1, Zero), W(lastOp'.n)),
                           CentreX(SplitParent), SplitExtent(SplitParent))
         /\ WithinRounding(FDiv(SumCy(SplitNewZones, 1, Zero), W(lastOp'.n)),
                           CentreY(SplitParent), SplitExtent(SplitParent))
         /\ (SplitParent = ScenarioSplitBooth /\ lastOp'.n = 2 /\ lastOp'.arg = HORIZONTAL) =>
               /\ SameGeometry(SplitNewZones[1],
                               [x |-> W(0), y |-> W(0), w |-> W(100), h |-> W(200)])
               /\ SameGeometry(SplitNewZones[2],
                               [x |-> W(100), y |-> W(0), w |-> W(100), h |-> W(200)])]_vars

\* the 30 x 60 booth at (10, 20) turned by 90 degrees, split VERTICAL in 2:
\* the local width is cut and the 15 x 60 children sit one above the other,
\* centred at (25, 42.5) and (25, 57.5)
C24_Witness ==
    /\ nops = 1
    /\ lastOp.op = "split"
    /\ lastOp.arg = VERTICAL
    /\ lastOp.n = 2
    /\ Len(items) = 2
    /\ items[1].rotation = 90
    /\ items[1].w = W(15) /\ items[1].h = W(60)
    /\ CentreX(items[1]) = W(25)
    /\ FMul(W(2), CentreY(items[1])) = W(85)
    /\ CentreX(items[2]) = W(25)
    /\ FMul(W(2), CentreY(items[2])) = W(115)

\* ------------------------------------------------------------------------
\* Axis-aligned bounds, compared edge by edge
\* ------------------------------------------------------------------------
\* the boxes share interior points (touching edges do not count)
BoxesIntersect(a, b) ==
    /\ FLt(a.x, FAdd(b.x, b.w)) /\ FLt(b.x, FAdd(a.x, a.w))
    /\ FLt(a.y, FAdd(b.y, b.h)) /\ FLt(b.y, FAdd(a.y, a.h))

\* box a holds box b
BoxContains(a, b) ==
    /\ FLe(a.x, b.x) /\ FLe(FAdd(b.x, b.w), FAdd(a.x, a.w))
    /\ FLe(a.y, b.y) /\ FLe(FAdd(b.y, b.h), FAdd(a.y, a.h))

PillarIndices == {j \in 1..Len(items) : items[j].type = PILLAR}

\* ------------------------------------------------------------------------
\* C25: if no pillar's axis-aligned bounds intersect the booth's (touching
\* edges count as not intersecting), netUsableArea(booth, zones) equals
\* booth.w * booth.h exactly, whatever the number of pillars and of other
\* booths in the collection.
\* ------------------------------------------------------------------------
C25_NoOverlapFullArea ==
    (/\ rendered.fn = "net"
     /\ \A j \in PillarIndices :
           ~BoxesIntersect(getBoundingBox(items[rendered.a]), getBoundingBox(items[j])))
       => rendered.value = FMul(items[rendered.a].w, items[rendered.a].h)

\* an unrotated booth with a pillar whose bounds touch the corner of its
\* own, a turned pillar far away and a second booth that overlaps it: the
\* net area is w * h
C25_Witness ==
    /\ rendered.fn = "net"
    /\ rendered.a = 1
    /\ Len(items) = 4
    /\ items[1].rotation = 0
    /\ items[2].type = PILLAR /\ items[2].x = W(-10) /\ items[2].w = W(10) /\ items[2].rotation = 0
    /\ items[3].type = PILLAR /\ items[3].x = W(100) /\ items[3].rotation = 45
    /\ items[4].type = BOOTH
    /\ BoxesIntersect(getBoundingBox(items[1]), getBoundingBox(items[4]))
    /\ rendered.value = FMul(items[1].w, items[1].h)

\* ------------------------------------------------------------------------
\* C26: if some pillar's axis-aligned bounds fully contain the booth's,
\* netUsableArea(booth, zones) equals 0, for rotated as well as unrotated
\* booths and pillars.  As claimed, it is the number 0 in every such case;
\* as amended, it is 0 for an unrotated booth with whole-number x, y, w, h
\* (whose edges x + w and y + h are exact) and otherwise 0 up to the
\* rounding of the edges in binary64: never negative and never above
\* (|x| + |y| + w + h)^2 * 2^-50.
\* ------------------------------------------------------------------------
Covered ==
    /\ rendered.fn = "net"
    /\ \E j \in PillarIndices :
          BoxContains(getBoundingBox(items[j]), getBoundingBox(items[rendered.a]))

\* (|x| + |y| + w + h)^2
PlacedExtent(item) ==
    FMul(FAdd(FAdd(FAbs(item.x), FAbs(item.y)), FAdd(item.w, item.h)),
         FAdd(FAdd(FAbs(item.x), FAbs(item.y)), FAdd(item.w, item.h)))

C26_Original ==
    Covered => rendered.value = Zero

C26_Amended ==
    Covered =>
        /\ FLe(Zero, rendered.value)
        /\ FLe(rendered.value, FMul(PlacedExtent(items[rendered.a]), Rounding))
        /\ (/\ items[rendered.a].rotation = 0
            /\ IsWhole(items[rendered.a].x) /\ IsWhole(items[rendered.a].y)
            /\ IsWhole(items[rendered.a].w) /\ IsWhole(items[rendered.a].h))
              => rendered.value = Zero

\* the 200 x 200 booth at x = 64.00000000000003 inside the 400 x 400 pillar
\* at (0, 0): x + w rounds to 264 and the net area is 2^-37, not 0
C26_Witness ==
    /\ Covered
    /\ items = <<OffGridBooth, CoveringPillar>>
    /\ rendered.a = 1
    /\ rendered.value = Bin(0, <<1>>, -37)

\* ------------------------------------------------------------------------
\* C27: for every rectangle and every rotation the area of the axis-aligned
\* bounds (w' * h' with w' = w|cos| + h|sin|, h' = w|sin| + h|cos|) is at
\* least w * h; it equals w * h exactly when the rotation is one of 0, 90,
\* 180, 270 degrees and is strictly larger at every other rotation.
\* ------------------------------------------------------------------------
BoundsArea == FMul(rendered.value.w, rendered.value.h)
RectArea == FMul(items[rendered.a].w, items[rendered.a].h)

C27_BoundsAreaAtRightAngles ==
    rendered.fn = "bbox" =>
        /\ FGe(BoundsArea, RectArea)
        /\ BoundsArea = RectArea <=> items[rendered.a].rotation \in {0, 90, 180, 270}

\* ------------------------------------------------------------------------
\* C28: a pointer-move changes only what its drag session targets.  In a
\* MOVE session only x and y of unlocked zones of the pointer-down snapshot
\* change; in a RESIZE session only x, y, w, h of the resize target change;
\* rotation, id, kind, points, lock flag and cosmetic fields of every zone,
\* every zone outside the session, the collection's length and order, the
\* selection, the session and the viewport stay unchanged.
\* ------------------------------------------------------------------------
C28_MoveFrame ==
    [][(MoveEvent /\ ItemSession) =>
         /\ Len(items') = Len(items)
         /\ \A k \in 1..Len(items) :
               /\ dragState.type = "ITEM_MOVE" =>
                     /\ items'[k] = [items[k] EXCEPT !.x = items'[k].x, !.y = items'[k].y]
                     /\ (items[k].locked
                           \/ items[k].id \notin DOMAIN dragState.initialItemsState)
                          => items'[k] = items[k]
               /\ dragState.type = "ITEM_RESIZE" =>
                     /\ items'[k] = [items[k] EXCEPT !.x = items'[k].x, !.y = items'[k].y,
                                                     !.w = items'[k].w, !.h = items'[k].h]
                     /\ items[k].id # dragState.activeResizeId => items'[k] = items[k]
         /\ UNCHANGED <<view, selectedIds, dragState, isDrawing, drawingPoints,
                        bgImagePosition>>]_vars

\* a MOVE session on the locked booth and the turned booth, pointer moved
\* by (30, 30): the turned booth follows, the locked booth and the zones
\* outside the snapshot stay
C28_Witness ==
    /\ lastOp.op = "mouseMove"
    /\ dragState.isDragging
    /\ dragState.type = "ITEM_MOVE"
    /\ DOMAIN dragState.initialItemsState = {301, 302}
    /\ FindItem(items, 302).x = W(80)
    /\ FindItem(items, 302).y = W(30)
    /\ FindItem(items, 302).rotation = 90
    /\ FindItem(items, 301) = SelectionProject[1]
    /\ FindItem(items, 303) = SelectionProject[3]

\* ------------------------------------------------------------------------
\* C29: in every reachable state the selection holds only ids of zones of
\* the collection: add, duplicate, split, delete, polygon-finish,
\* pointer-down on a zone or on the canvas, Escape and project import all
\* preserve this.
\* ------------------------------------------------------------------------
C29_SelectionInCollection == selectedIds \subseteq ItemIds

\* Delete on the selected zone added last: it is gone from the collection
\* and from the selection, the zone added before stays
C29_Witness ==
    /\ lastOp.op = "keyDown"
    /\ lastOp.arg = "Delete"
    /\ nextId = 3
    /\ Len(items) = 1
    /\ items[1].id = 1
    /\ selectedIds = {}

\* ------------------------------------------------------------------------
\* C30: a pointer-down (MOVE or RESIZE, without Ctrl/Meta, outside drawing
\* and background-edit modes) on a locked zone updates the selection but
\* never starts a drag session: it leaves the drag state as it was, so with
\* no session active none is active afterwards, and the pointer-moves that
\* follow change no zone, unlocked zones of the selection included.
\* ------------------------------------------------------------------------
\* this step is such a pointer-down (lastOp.n = 1 marks Ctrl/Meta, 2 Shift)
LockedPointerDown ==
    /\ lastOp'.op = "mouseDownItem"
    /\ lastOp'.n # 1
    /\ ~isDrawing /\ ~isEditingBackground
    /\ FindItem(items, lastOp'.id).locked

\* the state was left by such a pointer-down, with no session active
AfterLockedPointerDown ==
    /\ lastOp.op = "mouseDownItem"
    /\ lastOp.n # 1
    /\ ~isDrawing /\ ~isEditingBackground
    /\ HasItem(items, lastOp.id)
    /\ FindItem(items, lastOp.id).locked
    /\ ~dragState.isDragging

C30_LockedPointerDown ==
    [][/\ LockedPointerDown =>
            /\ selectedIds' = IF lastOp'.arg = RESIZE THEN {lastOp'.id}
                              ELSE IF lastOp'.n = 2
                              THEN (IF lastOp'.id \in selectedIds
                                    THEN selectedIds \ {lastOp'.id}
                                    ELSE selectedIds \cup {lastOp'.id})
                              ELSE (IF lastOp'.id \in selectedIds
                                    THEN selectedIds ELSE {lastOp'.id})
            /\ dragState' = dragState
            /\ items' = items
       /\ (AfterLockedPointerDown /\ MoveEvent) =>
            /\ items' = items
            /\ ~dragState'.isDragging]_vars

\* the turned booth was moved to and dropped; a Shift pointer-down on the
\* locked booth added it to the selection and no session is active
C30_Witness ==
    /\ lastOp.op = "mouseDownItem"
    /\ lastOp.id = 301
    /\ lastOp.n = 2
    /\ selectedIds = {301, 302}
    /\ ~dragState.isDragging
    /\ dragState.type = "null"
    /\ dragState.startX = W(10)
    /\ nops = 3
====
